---- MODULE Spec2Model ----
(***************************************************************************)
(* A model of the h26x-extractor sources: the emulation-prevention codec   *)
(* (crypt/utils.py), the per-NALU stream transformer (crypt/crypter.py),   *)
(* the CAVLC coeff_token decoder (h26x_extractor/cavlc.py), the macroblock *)
(* type resolution (h26x_extractor/macroblock.py) and the slice-level      *)
(* helpers of h26x_extractor/nalutypes.py (slice-group map, NextMbAddress, *)
(* nC derivation, run parsing of residual_block_cavlc).                    *)
(*                                                                         *)
(* Every component is run from its own initial condition: the variables of *)
(* the other components stay at their idle value.                          *)
(***************************************************************************)
EXTENDS Integers, Sequences, FiniteSets, TLC

VARIABLES
    codec,      \* one nalu_encode / nalu_decode run of crypt/utils.py
    crypter,    \* one process_file run of crypt/crypter.py (and its re-run)
    cav,        \* one cavlc.coeff_token call on a bit stream
    slice,      \* VCLSlice geometry, slice-group map and NextMbAddress
    ncv,        \* one VCLSlice.get_nc call over the slice's macroblock map
    resid,      \* one residual_block_cavlc run (run parsing and combining)
    mbrec,      \* one MacroBlock record under construction
    reader      \* one call of a bit-reader function on a BitStream

vars == <<codec, crypter, cav, slice, ncv, resid, mbrec, reader>>

Idle == [pc |-> "idle"]

(***************************************************************************)
(* Generic helpers.                                                        *)
(***************************************************************************)

Min(a, b) == IF a < b THEN a ELSE b

Max(a, b) == IF a > b THEN a ELSE b

\* All sequences over S of length at most n.
SeqsUpTo(S, n) == UNION {[1..k -> S] : k \in 0..n}

\* Python's data[a:b] for 0 <= a, with 0-based a and exclusive b; empty when
\* b <= a; b is clamped to len(data).
Slice(data, a, b) ==
    LET hi == Min(b, Len(data))
    IN  IF hi <= a THEN <<>> ELSE [k \in 1..(hi - a) |-> data[a + k]]

\* Python's data[a:] for 0 <= a.
SliceFrom(data, a) == Slice(data, a, Len(data))

\* Whether the three bytes t occur in e at 1-based position p.
OccursAt(e, p, t) ==
    /\ p + 2 <= Len(e)
    /\ e[p] = t[1] /\ e[p + 1] = t[2] /\ e[p + 2] = t[3]

Contains3(e, t) == \E p \in 1..Len(e) : OccursAt(e, p, t)

(***************************************************************************)
(* crypt/utils.py: the emulation-prevention codec.  nalu_encode and        *)
(* nalu_decode hand the call to the compiled rust_utils module; the Python *)
(* loops kept under the return statements are the algorithm of record and  *)
(* are what is modelled.  Indices are 1-based here: Python's               *)
(* i + 2 < i_max is i + 2 <= Len.                                          *)
(***************************************************************************)

\* The bounds of the codec runs.
MaxRawLen == 5

\* Byte values that matter to the codec: the four values below 4 that the
\* encoder escapes, and one value it passes through.
RawBytes == {0, 1, 2, 3, 4}

RECURSIVE EncodeLoop(_, _, _)
EncodeLoop(data_raw, i, data_enc) ==
    IF i > Len(data_raw) THEN data_enc
    ELSE IF /\ i + 2 <= Len(data_raw)
            /\ data_raw[i] = 0 /\ data_raw[i + 1] = 0 /\ data_raw[i + 2] < 4
         THEN EncodeLoop(data_raw, i + 3,
                  data_enc \o <<data_raw[i], data_raw[i + 1], 3, data_raw[i + 2]>>)
         ELSE EncodeLoop(data_raw, i + 1, Append(data_enc, data_raw[i]))

nalu_encode(data) == EncodeLoop(data, 1, <<>>)

RECURSIVE DecodeLoop(_, _, _)
DecodeLoop(rbsp_enc, i, rbsp_dec) ==
    IF i > Len(rbsp_enc) THEN rbsp_dec
    ELSE IF /\ i + 2 <= Len(rbsp_enc)
            /\ rbsp_enc[i] = 0 /\ rbsp_enc[i + 1] = 0 /\ rbsp_enc[i + 2] = 3
         THEN DecodeLoop(rbsp_enc, i + 3,
                  rbsp_dec \o <<rbsp_enc[i], rbsp_enc[i + 1]>>)
         ELSE DecodeLoop(rbsp_enc, i + 1, Append(rbsp_dec, rbsp_enc[i]))

nalu_decode(nalu_data) == DecodeLoop(nalu_data, 1, <<>>)

OthersOfCodec == <<crypter, cav, slice, ncv, resid, mbrec, reader>>

InitCodec ==
    /\ codec \in {[pc |-> "raw", data_raw |-> d, data_enc |-> <<>>, rbsp_dec |-> <<>>] :
                    d \in SeqsUpTo(RawBytes, MaxRawLen)}
    /\ crypter = Idle /\ cav = Idle /\ slice = Idle
    /\ ncv = Idle /\ resid = Idle /\ mbrec = Idle /\ reader = Idle

\* utils.nalu_encode(data)
NaluEncode ==
    /\ codec.pc = "raw"
    /\ codec' = [codec EXCEPT !.pc = "encoded", !.data_enc = nalu_encode(codec.data_raw)]
    /\ UNCHANGED OthersOfCodec

\* utils.nalu_decode(encode), as test_nalu_decode calls it on the encoder's output
NaluDecode ==
    /\ codec.pc = "encoded"
    /\ codec' = [codec EXCEPT !.pc = "decoded", !.rbsp_dec = nalu_decode(codec.data_enc)]
    /\ UNCHANGED OthersOfCodec

NextCodec == NaluEncode \/ NaluDecode

SpecCodec == InitCodec /\ [][NextCodec]_vars

MaxFileLen == 5

MaxNalus == 2

\* Byte values of the input file: the start-code bytes and a payload byte.
FileBytes == {0, 1, 255}

\* The callbacks handed to process_file: enc of test_encrypt_no_enc, encode of
\* test_encrypt_no_enc_encode, and two that change the payload's length.
Callbacks == {"identity", "encode", "header_only", "pad"}

\* [~b & 0xFF for b in nbsp[1:]]
InvertTail(nbsp) ==
    [k \in 1..Len(nbsp) |-> IF k = 1 THEN nbsp[k] ELSE 255 - nbsp[k]]

\* encode(data, *args) of test_encrypt_no_enc_encode
EncodeCallback(data) == nalu_encode(InvertTail(nalu_decode(data)))

\* func(bytes(data[start: end + 1]), fb, nri, nalu_type)
Callback(func, payload) ==
    CASE func = "identity"    -> payload
      [] func = "encode"      -> EncodeCallback(payload)
      [] func = "header_only" -> Slice(payload, 0, 1)
      [] func = "pad"         -> Append(payload, 0)

\* if start != pre_end + 1: res.extend(data[pre_end + 1: start])
GapBefore_Short(data, pre_end, start) ==
    IF start # pre_end + 1 THEN Slice(data, pre_end + 1, start - 1) ELSE <<>>

GapBefore(data, pre_end, start) ==
    IF start # pre_end + 1 THEN Slice(data, pre_end + 1, start) ELSE <<>>

\* bytes(data[start: end + 1])
Payload(data, start, end) == Slice(data, start, end + 1)

\* if pre_end != len(data) - 1: res.extend(data[pre_end + 1:])
TailAfter_Dropped(data, pre_end) ==
    IF pre_end = -1 THEN SliceFrom(data, pre_end + 1) ELSE <<>>

TailAfter(data, pre_end) ==
    IF pre_end # Len(data) - 1 THEN SliceFrom(data, pre_end + 1) ELSE <<>>

\* The range lists process_file may be handed for a file of n bytes: at most k
\* ranges, each inside the file, in stream order and not overlapping.
RECURSIVE RangeLists(_, _, _)
RangeLists(lo, n, k) ==
    {<<>>} \cup
    (IF k = 0 THEN {}
     ELSE UNION {UNION {{<<[start |-> s, end |-> e]>> \o rest :
                            rest \in RangeLists(e + 1, n, k - 1)} :
                        e \in s..(n - 1)} :
                 s \in lo..(n - 1)})

OthersOfCrypter == <<codec, cav, slice, ncv, resid, mbrec, reader>>

\* The state on entry to the for loop: res = bytearray(), pre_end = -1.
Entry(data, nalu_pos, func, pass, in_file) ==
    [pc |-> "loop", data |-> data, nalu_pos |-> nalu_pos, func |-> func,
     i |-> 1, pre_end |-> -1, res |-> <<>>, out |-> <<>>,
     pass |-> pass, in_file |-> in_file]

InitCrypter ==
    /\ \E d \in SeqsUpTo(FileBytes, MaxFileLen), f \in Callbacks :
           \E pos \in RangeLists(0, Len(d), MaxNalus) :
               crypter = Entry(d, pos, f, 1, d)
    /\ codec = Idle /\ cav = Idle /\ slice = Idle
    /\ ncv = Idle /\ resid = Idle /\ mbrec = Idle /\ reader = Idle

\* One iteration of the for loop over ex.nalu_pos.
ProcessNalu ==
    /\ crypter.pc = "loop"
    /\ crypter.i <= Len(crypter.nalu_pos)
    /\ LET start == crypter.nalu_pos[crypter.i].start
           end   == crypter.nalu_pos[crypter.i].end
           processed_nalu == Callback(crypter.func, Payload(crypter.data, start, end))
       IN  crypter' = [crypter EXCEPT
                         !.res = crypter.res
                                   \o GapBefore(crypter.data, crypter.pre_end, start)
                                   \o processed_nalu,
                         !.pre_end = end,
                         !.i = crypter.i + 1]
    /\ UNCHANGED OthersOfCrypter

\* After the loop: the rest of the input, then utils.write_file(out_file, res).
WriteFile ==
    /\ crypter.pc = "loop"
    /\ crypter.i > Len(crypter.nalu_pos)
    /\ LET res == crypter.res \o TailAfter(crypter.data, crypter.pre_end)
       IN  crypter' = [crypter EXCEPT !.res = res, !.out = res, !.pc = "done"]
    /\ UNCHANGED OthersOfCrypter

NextCrypter == ProcessNalu \/ WriteFile

SpecCrypter == InitCrypter /\ [][NextCrypter]_vars

\* The bytes of data at the 0-based positions a..b, both included.
Between(data, a, b) == [k \in 1..(b - a + 1) |-> data[a + k]]

\* What follows NALU k in the input, up to the next NALU or the end of input.
GapAfter(data, pos, k) ==
    Between(data, pos[k].end + 1,
            (IF k < Len(pos) THEN pos[k + 1].start ELSE Len(data)) - 1)

RECURSIVE TransformedFrom(_, _, _, _)
TransformedFrom(data, pos, func, k) ==
    IF k > Len(pos) THEN <<>>
    ELSE Callback(func, Between(data, pos[k].start, pos[k].end))
           \o GapAfter(data, pos, k)
           \o TransformedFrom(data, pos, func, k + 1)

Transformed(data, pos, func) ==
    Between(data, 0, (IF pos = <<>> THEN Len(data) ELSE pos[1].start) - 1)
      \o TransformedFrom(data, pos, func, 1)

\* C2: with the identity callback the written output equals the input byte for
\* byte, whatever ordered, non-overlapping NALU ranges the file was framed into.
C2_IdentityCallback ==
    (crypter.pc = "done" /\ crypter.func = "identity") => crypter.out = crypter.data

\* C2 witness: an identity run over two NALUs with bytes before the first,
\* between the two and after the last.
C2_Witness ==
    /\ crypter.pc = "done" /\ crypter.func = "identity"
    /\ Len(crypter.nalu_pos) = 2
    /\ crypter.nalu_pos[1].start > 0
    /\ crypter.nalu_pos[2].start > crypter.nalu_pos[1].end + 1
    /\ crypter.nalu_pos[2].end < Len(crypter.data) - 1

\* C3: for any callback the output is the input's bytes before the first NALU,
\* then for each NALU in order the callback's result followed by the input bytes
\* up to the next NALU (or the end of input): nothing outside a payload range is
\* dropped, duplicated, altered or reordered.
C3_GapsPreserved ==
    crypter.pc = "done" =>
        crypter.out = Transformed(crypter.data, crypter.nalu_pos, crypter.func)

\* C3 witness: a run whose callback changed a payload's length, with a gap
\* between two NALUs and bytes after the last.
C3_Witness ==
    /\ crypter.pc = "done" /\ crypter.func \in {"header_only", "pad"}
    /\ Len(crypter.nalu_pos) = 2
    /\ crypter.nalu_pos[1].end > crypter.nalu_pos[1].start
    /\ crypter.nalu_pos[2].start > crypter.nalu_pos[1].end + 1
    /\ crypter.nalu_pos[2].end < Len(crypter.data) - 1
    /\ Len(crypter.out) # Len(crypter.data)

(***************************************************************************)
(* test_encrypt_no_enc_encode: process_file run twice with the encode      *)
(* callback, the second run on the first run's output.  The framer         *)
(* (h26x_parser.H26xParser, which fills ex.nalu_pos) is not among the      *)
(* sources; NaluPos follows its description: a NALU runs from the byte     *)
(* after a start code 00 00 01 to the byte before the next start code, a   *)
(* zero byte right before 00 00 01 being part of a four-byte start code,   *)
(* and the last NALU runs to the end of the input.                         *)
(***************************************************************************)

\* The bound of the two-pass runs: the bytes of a NALU after its header byte.
MaxPayloadLen == 5

\* Byte values of the two-pass payloads: a zero and the two values whose bitwise
\* complement is a start-code byte.
PayloadBytes == {0, 254, 255}

\* The header bytes of the framed NALUs: 0x65, a coded slice of an IDR picture.
HeaderBytes == {101}

\* The NALU bodies of a conforming stream that the runs start from: no two zero
\* bytes in a row (so nothing to escape, and no start code inside) and no zero
\* at the end.
WellFormedBody(body) ==
    /\ \A k \in 1..(Len(body) - 1) : ~(body[k] = 0 /\ body[k + 1] = 0)
    /\ body # <<>> => body[Len(body)] # 0

\* 0-based offsets of the first byte after each start code 00 00 01.
NaluStarts(data) == {p + 2 : p \in {q \in 1..Len(data) : OccursAt(data, q, <<0, 0, 1>>)}}

\* The inclusive end of the NALU starting at 0-based offset s.
NaluEnd(data, s) ==
    LET later == {t \in NaluStarts(data) : t > s}
    IN  IF later = {} THEN Len(data) - 1
        ELSE LET t  == CHOOSE m \in later : \A o \in later : m <= o
                 sc == t - 3      \* 0-based offset of the next 00 00 01
             IN  IF sc - 1 >= s /\ data[sc] = 0 THEN sc - 2 ELSE sc - 1

RECURSIVE RangesFrom(_, _)
RangesFrom(data, lo) ==
    LET starts == {s \in NaluStarts(data) : s >= lo /\ NaluEnd(data, s) >= s}
    IN  IF starts = {} THEN <<>>
        ELSE LET s == CHOOSE m \in starts : \A o \in starts : m <= o
             IN  <<[start |-> s, end |-> NaluEnd(data, s)]>> \o RangesFrom(data, s + 1)

\* ex.nalu_pos of H26xParser(in_file)
NaluPos(data) == RangesFrom(data, 0)

InitTwoPass ==
    /\ \E lead \in {<<>>, <<0>>}, h \in HeaderBytes, body \in SeqsUpTo(PayloadBytes, MaxPayloadLen) :
           /\ WellFormedBody(body)
           /\ crypter = Entry(lead \o <<0, 0, 1, h>> \o body,
                              NaluPos(lead \o <<0, 0, 1, h>> \o body), "encode", 1,
                              lead \o <<0, 0, 1, h>> \o body)
    /\ codec = Idle /\ cav = Idle /\ slice = Idle
    /\ ncv = Idle /\ resid = Idle /\ mbrec = Idle /\ reader = Idle

\* crypter.encrypt(out_f, out_f2, encode): the second run reads the first run's output.
SecondPass ==
    /\ crypter.pc = "done"
    /\ crypter.pass = 1
    /\ crypter' = Entry(crypter.out, NaluPos(crypter.out), crypter.func, 2, crypter.in_file)
    /\ UNCHANGED OthersOfCrypter

NextTwoPass == ProcessNalu \/ WriteFile \/ SecondPass

SpecTwoPass == InitTwoPass /\ [][NextTwoPass]_vars

CoeffTokenTableLength_0_2 ==
    <<
       <<1, 6, 8, 9, 10, 11, 13, 13, 13, 14, 14, 15, 15, 16, 16, 16, 16>>,
       <<0, 2, 6, 8, 9, 10, 11, 13, 13, 14, 14, 15, 15, 15, 16, 16, 16>>,
       <<0, 0, 3, 7, 8, 9, 10, 11, 13, 13, 14, 14, 15, 15, 16, 16, 16>>,
       <<0, 0, 0, 5, 6, 7, 8, 9, 10, 11, 13, 14, 14, 15, 15, 16, 16>>
    >>

\* CoeffTokenTableCode_0_2 with the code of (TotalCoeff 1, TrailingOnes 0) mistyped
\* as 000100, the code of (TotalCoeff 2, TrailingOnes 1).
CoeffTokenTableCode_0_2_Typo ==
    <<
       <<1, 4, 7, 7, 7, 7, 15, 11, 8, 15, 11, 15, 11, 15, 11, 7, 4>>,
       <<0, 1, 4, 6, 6, 6, 6, 14, 10, 14, 10, 14, 10, 1, 14, 10, 6>>,
       <<0, 0, 1, 5, 5, 5, 5, 5, 13, 9, 13, 9, 13, 9, 13, 9, 5>>,
       <<0, 0, 0, 3, 3, 4, 4, 4, 4, 4, 12, 12, 8, 12, 8, 12, 8>>
    >>

CoeffTokenTableCode_0_2 ==
    <<
       <<1, 5, 7, 7, 7, 7, 15, 11, 8, 15, 11, 15, 11, 15, 11, 7, 4>>,
       <<0, 1, 4, 6, 6, 6, 6, 14, 10, 14, 10, 14, 10, 1, 14, 10, 6>>,
       <<0, 0, 1, 5, 5, 5, 5, 5, 13, 9, 13, 9, 13, 9, 13, 9, 5>>,
       <<0, 0, 0, 3, 3, 4, 4, 4, 4, 4, 12, 12, 8, 12, 8, 12, 8>>
    >>

CoeffTokenTableLength_2_4 ==
    <<
       <<2, 6, 6, 7, 8, 8, 9, 11, 11, 12, 12, 12, 13, 13, 13, 14, 14>>,
       <<0, 2, 5, 6, 6, 7, 8, 9, 11, 11, 12, 12, 13, 13, 14, 14, 14>>,
       <<0, 0, 3, 6, 6, 7, 8, 9, 11, 11, 12, 12, 13, 13, 13, 14, 14>>,
       <<0, 0, 0, 4, 4, 5, 6, 6, 7, 9, 11, 11, 12, 13, 13, 13, 14>>
    >>

CoeffTokenTableCode_2_4 ==
    <<
       <<3, 11, 7, 7, 7, 4, 7, 15, 11, 15, 11, 8, 15, 11, 7, 9, 7>>,
       <<0, 2, 7, 10, 6, 6, 6, 6, 14, 10, 14, 10, 14, 10, 11, 8, 6>>,
       <<0, 0, 3, 9, 5, 5, 5, 5, 13, 9, 13, 9, 13, 9, 6, 10, 5>>,
       <<0, 0, 0, 5, 4, 6, 8, 4, 4, 4, 12, 8, 12, 12, 8, 1, 4>>
    >>

CoeffTokenTableLength_4_8 ==
    <<
       <<4, 6, 6, 6, 7, 7, 7, 7, 8, 8, 9, 9, 9, 10, 10, 10, 10>>,
       <<0, 4, 5, 5, 5, 5, 6, 6, 7, 8, 8, 9, 9, 9, 10, 10, 10>>,
       <<0, 0, 4, 5, 5, 5, 6, 6, 7, 7, 8, 8, 9, 9, 10, 10, 10>>,
       <<0, 0, 0, 4, 4, 4, 4, 4, 5, 6, 7, 8, 8, 9, 10, 10, 10>>
    >>

CoeffTokenTableCode_4_8 ==
    <<
       <<15, 15, 11, 8, 15, 11, 9, 8, 15, 11, 15, 11, 8, 13, 9, 5, 1>>,
       <<0, 14, 15, 12, 10, 8, 14, 10, 14, 14, 10, 14, 10, 7, 12, 8, 4>>,
       <<0, 0, 13, 14, 11, 9, 13, 9, 13, 10, 13, 9, 13, 9, 11, 7, 3>>,
       <<0, 0, 0, 12, 11, 10, 9, 8, 13, 12, 12, 12, 8, 12, 10, 6, 2>>
    >>

tableHeight == 4

tableWidth == 17

\* The bounds of the coeff_token runs: bits before and after the codeword.
MaxLeadBits == 1

MaxTailBits == 2

Bit == {0, 1}

RECURSIVE Pow2(_)
Pow2(n) == IF n = 0 THEN 1 ELSE 2 * Pow2(n - 1)

\* The len bits of val, most significant first.
BitsOf(val, len) == [k \in 1..len |-> (val \div Pow2(len - k)) % 2]

\* The cells <<xIdx, yIdx>> of a table that hold a code.
Cells(Length) ==
    {c \in (0..(tableWidth - 1)) \X (0..(tableHeight - 1)) : Length[c[2] + 1][c[1] + 1] > 0}

\* init_table: table[(len(v), int(v, 2))] = (total_coeff, trailing_ones), kept as
\* the set of <<length, value, TotalCoeff, TrailingOnes>>.
InitTable(Length, Code) ==
    {<<Length[c[2] + 1][c[1] + 1], Code[c[2] + 1][c[1] + 1], c[1], c[2]>> : c \in Cells(Length)}

\* coeff_token_table = init_coeff_token_table(): one table per nC class, here the
\* three classes of 0 <= nC < 8.
coeff_token_table ==
    <<InitTable(CoeffTokenTableLength_0_2, CoeffTokenTableCode_0_2),
      InitTable(CoeffTokenTableLength_2_4, CoeffTokenTableCode_2_4),
      InitTable(CoeffTokenTableLength_4_8, CoeffTokenTableCode_4_8)>>

\* The index of the table that coeff_token selects by nC (0-based, as in the code).
TableIndex(nC) ==
    CASE 0 <= nC /\ nC < 2 -> 0
      [] 2 <= nC /\ nC < 4 -> 1
      [] 4 <= nC /\ nC < 8 -> 2

\* The while loop of coeff_token: one bit per turn, the first table hit wins.
\* stream.read past the end raises bitstring's ReadError where the cursor stands;
\* running past 16 turns restores the cursor and raises ValueError.
RECURSIVE CoeffTokenLoop(_, _, _, _, _, _)
CoeffTokenLoop(stream, start, pos, curr_len, curr_val, table) ==
    IF curr_len > 16
    THEN [ok |-> FALSE, error |-> "ValueError", pos |-> start, TotalCoeff |-> -1, TrailingOnes |-> -1]
    ELSE IF pos >= Len(stream)
    THEN [ok |-> FALSE, error |-> "ReadError", pos |-> pos, TotalCoeff |-> -1, TrailingOnes |-> -1]
    ELSE LET val  == curr_val * 2 + stream[pos + 1]
             len  == curr_len + 1
             hits == {e \in table : e[1] = len /\ e[2] = val}
         IN  IF hits # {}
             THEN LET e == CHOOSE h \in hits : TRUE
                  IN  [ok |-> TRUE, error |-> "", pos |-> pos + 1,
                       TotalCoeff |-> e[3], TrailingOnes |-> e[4]]
             ELSE CoeffTokenLoop(stream, start, pos + 1, len, val, table)

coeff_token(stream, pos, nC) ==
    CoeffTokenLoop(stream, pos, pos, 0, 0, coeff_token_table[TableIndex(nC) + 1])

OthersOfCav == <<codec, crypter, slice, ncv, resid, mbrec, reader>>

\* The arrays of the nC classes, in the order of coeff_token_table.
TableLengths ==
    <<CoeffTokenTableLength_0_2, CoeffTokenTableLength_2_4, CoeffTokenTableLength_4_8>>

TableCodes ==
    <<CoeffTokenTableCode_0_2, CoeffTokenTableCode_2_4, CoeffTokenTableCode_4_8>>

\* A stream holding, after some leading bits, the codeword of cell <<xIdx, yIdx>>
\* of table t, followed by any bits; the cursor is on the codeword.
CodewordStream(nC, t, c, lead, tail) ==
    [pc |-> "ready", nC |-> nC, xIdx |-> c[1], yIdx |-> c[2],
     codeLen |-> TableLengths[t][c[2] + 1][c[1] + 1],
     stream |-> lead \o BitsOf(TableCodes[t][c[2] + 1][c[1] + 1],
                               TableLengths[t][c[2] + 1][c[1] + 1]) \o tail,
     start |-> Len(lead), pos |-> Len(lead),
     ret |-> [ok |-> FALSE, error |-> "", pos |-> Len(lead), TotalCoeff |-> -1, TrailingOnes |-> -1]]

InitCav ==
    /\ \E nC \in 0..7, lead \in SeqsUpTo(Bit, MaxLeadBits), tail \in SeqsUpTo(Bit, MaxTailBits) :
           \E c \in Cells(TableLengths[TableIndex(nC) + 1]) :
               cav = CodewordStream(nC, TableIndex(nC) + 1, c, lead, tail)
    /\ codec = Idle /\ crypter = Idle /\ slice = Idle
    /\ ncv = Idle /\ resid = Idle /\ mbrec = Idle /\ reader = Idle

\* cavlc.coeff_token(stream, nC)
CoeffToken ==
    /\ cav.pc = "ready"
    /\ LET r == coeff_token(cav.stream, cav.pos, cav.nC)
       IN  cav' = [cav EXCEPT !.pc = IF r.ok THEN "decoded" ELSE "failed",
                              !.pos = r.pos, !.ret = r]
    /\ UNCHANGED OthersOfCav

NextCav == CoeffToken

SpecCav == InitCav /\ [][NextCav]_vars

\* C6: for nC in 0..7, decoding a stream that starts with a codeword of the table
\* nC selects returns that codeword's (TotalCoeff, TrailingOnes) and leaves the
\* cursor exactly the codeword's length past its start, whatever bits follow.
C6_CodewordDecodes ==
    cav.pc # "ready" =>
        /\ cav.pc = "decoded"
        /\ cav.ret.TotalCoeff = cav.xIdx
        /\ cav.ret.TrailingOnes = cav.yIdx
        /\ cav.pos = cav.start + cav.codeLen

\* C6 witness: a 16-bit codeword decoded with bits before and after it.
C6_Witness ==
    /\ cav.pc = "decoded"
    /\ cav.codeLen = 16
    /\ cav.start > 0
    /\ Len(cav.stream) > cav.start + cav.codeLen
    /\ cav.pos = cav.start + 16

(***************************************************************************)
(* h26x_extractor/nalutypes.py: VCLSlice.setup_MbToSliceGroupMap and       *)
(* VCLSlice.NextMbAddress, for a picture of frame macroblocks              *)
(* (frame_mbs_only_flag = 1, so PicSizeInMapUnits = PicSizeInMbs) and       *)
(* slice_group_map_type 0, the one type the code implements.  Arrays are   *)
(* 0-based in the code and kept as sequences here: a[i] is a[i + 1].       *)
(***************************************************************************)

\* The bounds of the slice-group runs.
MaxPicSizeInMbs == 6

MaxSliceGroupsMinus1 == 2

MaxRunLengthMinus1 == 2

\* while j <= run_length_minus1[iGroup] and i + j < PicSizeInMapUnits:
\*     mapUnitToSliceGroupMap[i + j] = iGroup
RECURSIVE FillRun(_, _, _, _, _, _)
FillRun(map, PicSizeInMapUnits, run_length_minus1, i, iGroup, j) ==
    IF j <= run_length_minus1[iGroup + 1] /\ i + j < PicSizeInMapUnits
    THEN FillRun([map EXCEPT ![i + j + 1] = iGroup], PicSizeInMapUnits,
                 run_length_minus1, i, iGroup, j + 1)
    ELSE map

\* while iGroup <= num_slice_groups_minus1 and i < PicSizeInMapUnits: one run per group.
RECURSIVE GroupLoop(_, _, _, _, _, _)
GroupLoop(map, PicSizeInMapUnits, num_slice_groups_minus1, run_length_minus1, i, iGroup) ==
    IF iGroup <= num_slice_groups_minus1 /\ i < PicSizeInMapUnits
    THEN GroupLoop(FillRun(map, PicSizeInMapUnits, run_length_minus1, i, iGroup, 0),
                   PicSizeInMapUnits, num_slice_groups_minus1, run_length_minus1,
                   i + run_length_minus1[iGroup + 1] + 1, iGroup + 1)
    ELSE [map |-> map, i |-> i]

\* while True: ... if i >= PicSizeInMapUnits: break
RECURSIVE MapUnitLoop(_, _, _, _, _)
MapUnitLoop(map, PicSizeInMapUnits, num_slice_groups_minus1, run_length_minus1, i) ==
    LET r == GroupLoop(map, PicSizeInMapUnits, num_slice_groups_minus1, run_length_minus1, i, 0)
    IN  IF r.i >= PicSizeInMapUnits THEN r.map
        ELSE MapUnitLoop(r.map, PicSizeInMapUnits, num_slice_groups_minus1,
                         run_length_minus1, r.i)

\* setup_MbToSliceGroupMap with sps.frame_mbs_only_flag set:
\* MbToSliceGroupMap[i] = mapUnitToSliceGroupMap[i] for i in range(PicSizeInMbs).
setup_MbToSliceGroupMap(PicSizeInMbs, num_slice_groups_minus1, run_length_minus1) ==
    LET mapUnitToSliceGroupMap ==
            MapUnitLoop([k \in 1..PicSizeInMbs |-> 0], PicSizeInMbs,
                        num_slice_groups_minus1, run_length_minus1, 0)
    IN  [k \in 1..PicSizeInMbs |-> mapUnitToSliceGroupMap[k]]

\* while i < self.PicSizeInMbs and MbToSliceGroupMap[i] != MbToSliceGroupMap[n]: i += 1
RECURSIVE NextMbAddressLoop(_, _, _, _)
NextMbAddressLoop(MbToSliceGroupMap, PicSizeInMbs, n, i) ==
    IF i < PicSizeInMbs /\ MbToSliceGroupMap[i + 1] # MbToSliceGroupMap[n + 1]
    THEN NextMbAddressLoop(MbToSliceGroupMap, PicSizeInMbs, n, i + 1)
    ELSE i

\* A NextMbAddress whose search starts at n itself.
NextMbAddress_FromN(MbToSliceGroupMap, PicSizeInMbs, n) ==
    NextMbAddressLoop(MbToSliceGroupMap, PicSizeInMbs, n, n)

\* VCLSlice.NextMbAddress(n)
NextMbAddress(MbToSliceGroupMap, PicSizeInMbs, n) ==
    NextMbAddressLoop(MbToSliceGroupMap, PicSizeInMbs, n, n + 1)

OthersOfSlice == <<codec, crypter, cav, ncv, resid, mbrec, reader>>

\* A slice whose header and parameter sets are parsed: the picture size and the
\* PPS's slice-group runs.
InitSlice ==
    /\ \E P \in 1..MaxPicSizeInMbs, g \in 0..MaxSliceGroupsMinus1 :
           \E rl \in [1..(g + 1) -> 0..MaxRunLengthMinus1] :
               slice = [pc |-> "header", PicSizeInMbs |-> P,
                        num_slice_groups_minus1 |-> g, run_length_minus1 |-> rl,
                        MbToSliceGroupMap |-> <<>>, n |-> -1, ret |-> -1]
    /\ codec = Idle /\ crypter = Idle /\ cav = Idle
    /\ ncv = Idle /\ resid = Idle /\ mbrec = Idle /\ reader = Idle

\* setup_slice_data(): self.setup_MbToSliceGroupMap(sps, pps)
SetupSliceData ==
    /\ slice.pc = "header"
    /\ slice' = [slice EXCEPT
                   !.pc = "ready",
                   !.MbToSliceGroupMap =
                       setup_MbToSliceGroupMap(slice.PicSizeInMbs,
                                               slice.num_slice_groups_minus1,
                                               slice.run_length_minus1)]
    /\ UNCHANGED OthersOfSlice

\* self.NextMbAddress(n) for a macroblock address of the picture.
CallNextMbAddress ==
    /\ slice.pc \in {"ready", "returned"}
    /\ \E n \in 0..(slice.PicSizeInMbs - 1) :
           slice' = [slice EXCEPT
                       !.pc = "returned", !.n = n,
                       !.ret = NextMbAddress(slice.MbToSliceGroupMap, slice.PicSizeInMbs, n)]
    /\ UNCHANGED OthersOfSlice

NextSlice == SetupSliceData \/ CallNextMbAddress

SpecSlice == InitSlice /\ [][NextSlice]_vars

\* The addresses after n, inside the picture, of the slice group of n.
SameGroupAfter(MbToSliceGroupMap, PicSizeInMbs, n) ==
    {i \in (n + 1)..(PicSizeInMbs - 1) : MbToSliceGroupMap[i + 1] = MbToSliceGroupMap[n + 1]}

\* C7: NextMbAddress(n), for 0 <= n < PicSizeInMbs, returns the smallest i > n
\* inside the picture with the slice group of n, and PicSizeInMbs when there is
\* none; the result is greater than n and at most PicSizeInMbs.
C7_NextMbAddress ==
    slice.pc = "returned" =>
        LET later == SameGroupAfter(slice.MbToSliceGroupMap, slice.PicSizeInMbs, slice.n)
        IN  /\ slice.n < slice.ret /\ slice.ret <= slice.PicSizeInMbs
            /\ later = {} => slice.ret = slice.PicSizeInMbs
            /\ later # {} => /\ slice.ret \in later
                             /\ \A i \in later : slice.ret <= i

\* C7 witness: a call that skipped macroblocks of other slice groups and found
\* one of its own group inside the picture.
C7_Witness ==
    /\ slice.pc = "returned"
    /\ slice.ret > slice.n + 1
    /\ slice.ret < slice.PicSizeInMbs
    /\ slice.MbToSliceGroupMap[slice.ret + 1] = slice.MbToSliceGroupMap[slice.n + 1]

\* C7 witness of the other case: no later macroblock of the group, though later
\* macroblocks exist.
C7_WitnessNone ==
    /\ slice.pc = "returned"
    /\ slice.n + 1 < slice.PicSizeInMbs
    /\ slice.ret = slice.PicSizeInMbs

(***************************************************************************)
(* h26x_extractor/nalutypes.py: VCLSlice.get_nc, steps 5 to 7, on the      *)
(* neighbours step 4 has derived (mbAddrN is None for an unavailable       *)
(* neighbour).  A MacroBlock object is the record of attributes that       *)
(* MacroBlock.__init__ of macroblock.py assigns; reading an attribute the  *)
(* object does not have raises AttributeError, as does reading one of      *)
(* None, which get_macroblock returns for an address it has no object for. *)
(***************************************************************************)

I_16x16_0_0_0 == 1

I_PCM == 25

P_Skip == 32

B_Skip == 56

\* The bound of the nC runs: the block indices of a neighbour are 0..MaxBlkIdx.
MaxBlkIdx == 1

\* Addresses of the macroblocks a neighbour may be.
MbAddrs == {0, 1}

\* The normalised mb_type values of the neighbours.
NeighbourMbTypes == {I_16x16_0_0_0, I_PCM, P_Skip, B_Skip}

\* TotalCoeff values decoded for a block of a neighbour.
TotalCoeffValues == {1, 16}

\* Python's None, as an object and as a macroblock address.
None == [none |-> TRUE]

NoAddr == -1

\* MacroBlock(slice_type=..., real_mb_type=...): the attributes __init__ assigns
\* that get_nc reads; the class has no other attribute or method get_nc names.
MacroBlock(slice_type, real_mb_type) ==
    [slice_type |-> slice_type, mb_type |-> real_mb_type]

\* obj.name
GetAttr(obj, name) ==
    IF obj # None /\ name \in DOMAIN obj
    THEN [ok |-> TRUE, value |-> obj[name]]
    ELSE [ok |-> FALSE, value |-> "AttributeError"]

\* self.macroblocks.get(addr)
get_macroblock(macroblocks, addr) ==
    IF addr \in DOMAIN macroblocks THEN macroblocks[addr] ELSE None

\* Step 6 for one available neighbour: nN, or the error raised on the way.
NeighbourCount(block, blkN) ==
    LET mb_type == GetAttr(block, "mb_type")
        empty   == GetAttr(block, "is_ac_residual_empty")
        total   == GetAttr(block, "TotalCoeff")
    IN  IF ~mb_type.ok THEN mb_type
        ELSE IF mb_type.value \in {P_Skip, B_Skip} THEN [ok |-> TRUE, value |-> 0]
        ELSE IF mb_type.value # I_PCM /\ ~empty.ok THEN empty
        ELSE IF mb_type.value # I_PCM /\ empty.value THEN [ok |-> TRUE, value |-> 0]
        ELSE IF mb_type.value = I_PCM THEN [ok |-> TRUE, value |-> 16]
        ELSE IF ~total.ok THEN total
        ELSE [ok |-> TRUE, value |-> total.value[blkN + 1]]

\* (nA + nB + 1) >> 1
Average(nA, nB) == (nA + nB + 1) \div 2

\* Steps 5 to 7 of get_nc.
get_nc(macroblocks, mbAddrA, blkA, mbAddrB, blkB) ==
    LET availableFlagA == mbAddrA # NoAddr
        availableFlagB == mbAddrB # NoAddr
        nA == IF availableFlagA
              THEN NeighbourCount(get_macroblock(macroblocks, mbAddrA), blkA)
              ELSE [ok |-> TRUE, value |-> 0]
        nB == IF availableFlagB
              THEN NeighbourCount(get_macroblock(macroblocks, mbAddrB), blkB)
              ELSE [ok |-> TRUE, value |-> 0]
    IN  IF ~nA.ok THEN [ok |-> FALSE, error |-> nA.value, nC |-> 0]
        ELSE IF ~nB.ok THEN [ok |-> FALSE, error |-> nB.value, nC |-> 0]
        ELSE [ok |-> TRUE, error |-> "",
              nC |-> IF availableFlagA /\ availableFlagB THEN Average(nA.value, nB.value)
                     ELSE IF availableFlagA THEN nA.value
                     ELSE IF availableFlagB THEN nB.value
                     ELSE 0]

OthersOfNc == <<codec, crypter, cav, slice, resid, mbrec, reader>>

\* What the slice data holds for a macroblock that is a neighbour: its
\* normalised mb_type, whether its AC residual is empty, and the TotalCoeff
\* decoded for each of its blocks.
NeighbourFacts ==
    [mb_type : NeighbourMbTypes, ac_empty : BOOLEAN,
     TotalCoeff : [1..(MaxBlkIdx + 1) -> TotalCoeffValues]]

\* A call of get_nc for a block that is not chroma DC: the neighbours step 4
\* derived, and self.macroblocks holding the objects built for the macroblocks
\* parsed so far (a skipped macroblock has none).
InitNc ==
    /\ \E parsed \in SUBSET MbAddrs :
           \E facts \in [parsed -> NeighbourFacts] :
               \E mbAddrA \in {NoAddr} \cup MbAddrs, mbAddrB \in {NoAddr} \cup MbAddrs,
                  blkA \in 0..MaxBlkIdx, blkB \in 0..MaxBlkIdx :
                   ncv = [pc |-> "ready", facts |-> facts,
                          macroblocks |-> [a \in parsed |-> MacroBlock("I", facts[a].mb_type)],
                          mbAddrA |-> mbAddrA, blkA |-> blkA,
                          mbAddrB |-> mbAddrB, blkB |-> blkB,
                          ret |-> [ok |-> FALSE, error |-> "", nC |-> 0]]
    /\ codec = Idle /\ crypter = Idle /\ cav = Idle
    /\ slice = Idle /\ resid = Idle /\ mbrec = Idle /\ reader = Idle

\* nC = self.get_nc(mb, invoker, blkIdx)
GetNc ==
    /\ ncv.pc = "ready"
    /\ ncv' = [ncv EXCEPT
                 !.pc = "returned",
                 !.ret = get_nc(ncv.macroblocks, ncv.mbAddrA, ncv.blkA, ncv.mbAddrB, ncv.blkB)]
    /\ UNCHANGED OthersOfNc

NextNc == GetNc

SpecNc == InitNc /\ [][NextNc]_vars

\* The contribution of an available neighbour: 0 for a skipped macroblock or one
\* whose AC residual is empty, 16 for I_PCM, else the TotalCoeff recorded for the
\* block.  An I_PCM macroblock carries no residual and counts 16; a macroblock
\* of an mb_skip_run has no entry in facts and is a skipped one.
Contribution(facts, addr, blk) ==
    IF addr \notin DOMAIN facts THEN 0
    ELSE IF facts[addr].mb_type = I_PCM THEN 16
    ELSE IF facts[addr].mb_type \in {P_Skip, B_Skip} \/ facts[addr].ac_empty THEN 0
    ELSE facts[addr].TotalCoeff[blk + 1]

ExpectedNc ==
    LET nA == Contribution(ncv.facts, ncv.mbAddrA, ncv.blkA)
        nB == Contribution(ncv.facts, ncv.mbAddrB, ncv.blkB)
    IN  IF ncv.mbAddrA # NoAddr /\ ncv.mbAddrB # NoAddr THEN (nA + nB + 1) \div 2
        ELSE IF ncv.mbAddrA # NoAddr THEN nA
        ELSE IF ncv.mbAddrB # NoAddr THEN nB
        ELSE 0

\* C8: for a block that is not chroma DC get_nc returns 0 with no neighbour
\* available, the contribution of the one available neighbour, and
\* (nA + nB + 1) >> 1 with both, a neighbour contributing 0 when skipped or with
\* an empty AC residual, 16 when I_PCM, else its recorded TotalCoeff[blkN].
C8_NcDerivation ==
    ncv.pc = "returned" => (ncv.ret.ok /\ ncv.ret.nC = ExpectedNc)

\* Where get_nc does return, it returns the value of C8.
NcSoundWhereItReturns ==
    (ncv.pc = "returned" /\ ncv.ret.ok) => ncv.ret.nC = ExpectedNc

\* A call that returned with both neighbours available.
NcReturnedForBoth ==
    /\ ncv.pc = "returned" /\ ncv.ret.ok
    /\ ncv.mbAddrA # NoAddr /\ ncv.mbAddrB # NoAddr
    /\ ncv.ret.nC = 8

(***************************************************************************)
(* h26x_extractor/nalutypes.py: VCLSlice.residual_block_cavlc, the run     *)
(* information (9.2.3) and its combination with the levels (9.2.4).  The   *)
(* block is a coded one: its TotalCoeff and levels are those the encoder   *)
(* wrote, and the stream holds total_zeros and the run_before values the   *)
(* encoder wrote for the block's runs.  The VLC tables of total_zeros and  *)
(* run_before are read from text files that are not among the sources;    *)
(* ce3 and ce4 are taken at the level of the decoded syntax element.       *)
(***************************************************************************)

\* The bound of the residual runs: the coefficients of a block (4 is a chroma
\* DC block of 4:2:0 video), coded with startIdx = 0 and endIdx = MaxNumCoeff - 1.
MaxNumCoeff == 4

\* The non-zero levels of the coded coefficients.
Levels == {-1, 1, 2}

RECURSIVE SumSeq(_)
SumSeq(q) == IF q = <<>> THEN 0 ELSE Head(q) + SumSeq(Tail(q))

\* The run_before syntax elements an encoder writes for the runs (9.2.3): one
\* for each coefficient but the last while zeros are left, each coded with the
\* table of the zerosLeft it is written under.
RECURSIVE RunBeforeElements(_, _, _)
RunBeforeElements(runs, i, zerosLeft) ==
    IF i >= Len(runs) \/ zerosLeft = 0 THEN <<>>
    ELSE <<[zerosLeft |-> zerosLeft, run_before |-> runs[i]]>>
           \o RunBeforeElements(runs, i + 1, zerosLeft - runs[i])

\* ce4(zerosLeft): the values parse_run_before may return.  An element read
\* under the zerosLeft it was written under decodes to its value; bits read
\* under another table, or past the block's elements, decode to some value of
\* the table that is read.
ce4(elements, zerosLeft) ==
    IF elements # <<>> /\ Head(elements).zerosLeft = zerosLeft
    THEN {Head(elements).run_before}
    ELSE 0..zerosLeft

\* coeffLevel[idx] = value on a Python list or numpy array of length
\* Len(coeffLevel): a negative index counts from the end, one outside raises
\* IndexError.
SetItem(coeffLevel, idx, value) ==
    LET n == Len(coeffLevel)
        k == IF idx < 0 THEN idx + n ELSE idx
    IN  IF k < 0 \/ k >= n
        THEN [ok |-> FALSE, list |-> coeffLevel]
        ELSE [ok |-> TRUE, list |-> [coeffLevel EXCEPT ![k + 1] = value]]

\* for i in range(totalCoeff - 1, -1, -1):
\*     coeffNum += runVal[i] + 1; coeffLevel[startIdx + coeffNum] = levelVal[i]
RECURSIVE CombineLoop(_, _, _, _, _, _)
CombineLoop(coeffLevel, startIdx, levelVal, runVal, i, coeffNum) ==
    IF i < 0 THEN [ok |-> TRUE, list |-> coeffLevel]
    ELSE LET num == coeffNum + runVal[i + 1] + 1
             set == SetItem(coeffLevel, startIdx + num, levelVal[i + 1])
         IN  IF ~set.ok THEN set
             ELSE CombineLoop(set.list, startIdx, levelVal, runVal, i - 1, num)

OthersOfResid == <<codec, crypter, cav, slice, ncv, mbrec, reader>>

\* residual_block_cavlc after steps 1 to 3 and the level parsing: coeffLevel is
\* cleared, totalCoeff > 0 and levelVal are decoded, the cursor is on the run
\* information of the block.
InitResid ==
    /\ \E totalCoeff \in 1..MaxNumCoeff :
           \E levelVal \in [1..totalCoeff -> Levels],
              runs \in [1..totalCoeff -> 0..(MaxNumCoeff - 1)] :
               /\ SumSeq(runs) + totalCoeff <= MaxNumCoeff
               /\ resid = [pc |-> "runs", startIdx |-> 0, endIdx |-> MaxNumCoeff - 1,
                           maxNumCoeff |-> MaxNumCoeff, totalCoeff |-> totalCoeff,
                           levelVal |-> levelVal, runs |-> runs,
                           total_zeros |-> SumSeq(runs),
                           elements |-> RunBeforeElements(runs, 1, SumSeq(runs)),
                           coeffLevel |-> [k \in 1..MaxNumCoeff |-> 0],
                           runVal |-> <<>>, zerosLeft |-> 0, i |-> 0]
    /\ codec = Idle /\ crypter = Idle /\ cav = Idle
    /\ slice = Idle /\ ncv = Idle /\ mbrec = Idle /\ reader = Idle

\* runVal = [0] * totalCoeff; zerosLeft = total_zeros read by ce3 when
\* totalCoeff < endIdx - startIdx + 1, else 0.
ParseTotalZeros ==
    /\ resid.pc = "runs"
    /\ resid' = [resid EXCEPT
                   !.pc = "run_loop",
                   !.runVal = [k \in 1..resid.totalCoeff |-> 0],
                   !.zerosLeft = IF resid.totalCoeff < resid.endIdx - resid.startIdx + 1
                                 THEN resid.total_zeros ELSE 0,
                   !.i = 0]
    /\ UNCHANGED OthersOfResid

\* One turn of for i in range(totalCoeff - 1).
ParseRunBefore ==
    /\ resid.pc = "run_loop"
    /\ resid.i < resid.totalCoeff - 1
    /\ IF resid.zerosLeft > 0 /\ resid.i >= resid.totalCoeff - Min(resid.totalCoeff, 4)
       THEN \E run_before \in ce4(resid.elements, resid.zerosLeft) :
                resid' = [resid EXCEPT
                            !.runVal[resid.i + 1] = resid.runVal[resid.i + 1] - run_before,
                            !.elements = IF resid.elements = <<>> THEN <<>>
                                         ELSE Tail(resid.elements),
                            !.i = resid.i + 1]
       ELSE resid' = [resid EXCEPT
                        !.runVal[resid.i + 1] = 0,
                        !.zerosLeft = resid.zerosLeft - 0,
                        !.i = resid.i + 1]
    /\ UNCHANGED OthersOfResid

\* runVal[totalCoeff - 1] = zerosLeft, then the combining loop of 9.2.4.
Combine ==
    /\ resid.pc = "run_loop"
    /\ resid.i >= resid.totalCoeff - 1
    /\ LET runVal == [resid.runVal EXCEPT ![resid.totalCoeff] = resid.zerosLeft]
           r == CombineLoop(resid.coeffLevel, resid.startIdx, resid.levelVal, runVal,
                            resid.totalCoeff - 1, -1)
       IN  resid' = [resid EXCEPT
                       !.pc = IF r.ok THEN "done" ELSE "IndexError",
                       !.runVal = runVal,
                       !.coeffLevel = r.list]
    /\ UNCHANGED OthersOfResid

NextResid == ParseTotalZeros \/ ParseRunBefore \/ Combine

SpecResid == InitResid /\ [][NextResid]_vars

\* The position of levelVal[i] in the block: startIdx + (sum over j >= i of
\* (run[j] + 1)) - 1, with i and j counted from 1 here.
RECURSIVE PositionOf(_, _, _)
PositionOf(runs, startIdx, i) ==
    IF i > Len(runs) THEN startIdx - 1
    ELSE PositionOf(runs, startIdx, i + 1) + runs[i] + 1

\* The sparse array the levels and runs stand for.
SparseArray(levelVal, runs, startIdx, maxNumCoeff) ==
    [k \in 1..maxNumCoeff |->
        IF \E i \in 1..Len(runs) : PositionOf(runs, startIdx, i) = k - 1
        THEN levelVal[CHOOSE i \in 1..Len(runs) : PositionOf(runs, startIdx, i) = k - 1]
        ELSE 0]

\* C9: for non-zero levels and runs with sum(runs) + TotalCoeff within the block,
\* decoding the block's total_zeros and run_before values and combining them
\* with the levels reproduces the original sparse array: levelVal[i] at index
\* startIdx + (sum over j >= i of (run[j] + 1)) - 1, every other entry 0.
C9_RunRoundTrip ==
    resid.pc \in {"done", "IndexError"} =>
        /\ resid.pc = "done"
        /\ resid.coeffLevel = SparseArray(resid.levelVal, resid.runs, resid.startIdx,
                                          resid.maxNumCoeff)

\* A block without zeros between or before its coefficients comes out right.
ResidDoneRight ==
    /\ resid.pc = "done"
    /\ resid.totalCoeff > 1
    /\ resid.coeffLevel = SparseArray(resid.levelVal, resid.runs, resid.startIdx,
                                      resid.maxNumCoeff)

\* C19: run parsing gives runVal[i] = r for each run_before value r decoded under
\* zerosLeft > 0, lowering zerosLeft by r, and runVal[TotalCoeff-1] = zerosLeft;
\* hence every runVal[i] >= 0, zerosLeft never becomes negative, and the sum of
\* all runVal equals the decoded total_zeros.
C19_RunInvariants ==
    resid.pc \in {"done", "IndexError"} =>
        /\ \A k \in 1..resid.totalCoeff : resid.runVal[k] >= 0
        /\ resid.zerosLeft >= 0
        /\ SumSeq(resid.runVal) =
               IF resid.totalCoeff < resid.endIdx - resid.startIdx + 1
               THEN resid.total_zeros ELSE 0
        /\ resid.runVal = resid.runs

\* The part of C19 that holds: zerosLeft never becomes negative.
ZerosLeftNotNegative ==
    resid.pc \in {"run_loop", "done", "IndexError"} => resid.zerosLeft >= 0

(***************************************************************************)
(* h26x_extractor/macroblock.py: MacroBlock.__init__ for a macroblock      *)
(* parsed from a slice (macroblock_layer hands it the slice's type and the *)
(* raw mb_type read from the stream), get_real_mb_type and                 *)
(* get_mb_type_clear.                                                      *)
(***************************************************************************)

SI_LEN == 1

SI_START == 26

P_SP_LEN == 5

P_SP_START == 27

B_LEN == 23

B_START == 33

\* slice_type_clear of a slice.
SliceTypes == {"I", "SI", "P", "SP", "B"}

\* The raw mb_type values of a slice type (Tables 7-11 to 7-14): the types of
\* the slice's own table, then the 26 I types.
RawMbTypes(slice_type) ==
    CASE slice_type = "I"            -> 0..I_PCM
      [] slice_type = "SI"           -> 0..(SI_LEN + I_PCM)
      [] slice_type \in {"P", "SP"}  -> 0..(P_SP_LEN + I_PCM)
      [] slice_type = "B"            -> 0..(B_LEN + I_PCM)

\* MacroBlock.get_real_mb_type(mb_type)
get_real_mb_type(slice_type, mb_type) ==
    CASE slice_type = "I"            -> mb_type
      [] slice_type = "SI"           ->
            IF mb_type < SI_LEN THEN mb_type + SI_START ELSE mb_type - SI_LEN
      [] slice_type \in {"P", "SP"}  ->
            IF mb_type < P_SP_LEN THEN mb_type + P_SP_START ELSE mb_type - P_SP_LEN
      [] slice_type = "B"            ->
            IF mb_type < B_LEN THEN mb_type + B_START ELSE mb_type - B_LEN

\* MacroBlock.get_mb_type_clear() of an object whose mb_type is set and not 0.
get_mb_type_clear(slice_type, mb_type) ==
    CASE slice_type = "I"            -> "I"
      [] slice_type = "SI"           -> IF mb_type < SI_LEN THEN "SI" ELSE "I"
      [] slice_type \in {"P", "SP"}  -> IF mb_type < P_SP_LEN THEN "P" ELSE "I"
      [] slice_type = "B"            -> IF mb_type < B_LEN THEN "B" ELSE "I"

\* MacroBlock(slice_type=..., mb_type=...): self.mb_type_clear = None, then
\* self.mb_type = self.get_real_mb_type(mb_type), and
\* if self.mb_type: self.mb_type_clear = self.get_mb_type_clear().
MacroBlockParsed(slice_type, mb_type) ==
    LET real == get_real_mb_type(slice_type, mb_type)
    IN  [slice_type |-> slice_type, mb_type |-> real,
         mb_type_clear |-> IF real # 0 THEN get_mb_type_clear(slice_type, real)
                           ELSE "None"]

OthersOfMbrec == <<codec, crypter, cav, slice, ncv, resid, reader>>

\* macroblock_layer has read mb_type = self.ue("mb_type") in a slice.
InitMbrec ==
    /\ \E slice_type \in SliceTypes :
           \E mb_type \in RawMbTypes(slice_type) :
               mbrec = [pc |-> "mb_type_read", slice_type |-> slice_type,
                        raw_mb_type |-> mb_type,
                        mb |-> [slice_type |-> "", mb_type |-> 0, mb_type_clear |-> "None"]]
    /\ codec = Idle /\ crypter = Idle /\ cav = Idle
    /\ slice = Idle /\ ncv = Idle /\ resid = Idle /\ reader = Idle

\* mb = MacroBlock(slice_type=self.slice_type_clear, ..., mb_type=mb_type)
ConstructMacroBlock ==
    /\ mbrec.pc = "mb_type_read"
    /\ mbrec' = [mbrec EXCEPT
                   !.pc = "constructed",
                   !.mb = MacroBlockParsed(mbrec.slice_type, mbrec.raw_mb_type)]
    /\ UNCHANGED OthersOfMbrec

NextMbrec == ConstructMacroBlock

SpecMbrec == InitMbrec /\ [][NextMbrec]_vars

\* C10: mb_type_clear is 'P' exactly for raw mb_type 0..4 of a P or SP slice, 'B'
\* exactly for raw 0..22 of a B slice, 'SI' exactly for raw 0 of an SI slice and
\* 'I' for every other valid raw mb_type; it is never left unset.
C10_MbTypeClear ==
    mbrec.pc = "constructed" =>
        mbrec.mb.mb_type_clear =
            (IF mbrec.slice_type \in {"P", "SP"} /\ mbrec.raw_mb_type \in 0..4 THEN "P"
             ELSE IF mbrec.slice_type = "B" /\ mbrec.raw_mb_type \in 0..22 THEN "B"
             ELSE IF mbrec.slice_type = "SI" /\ mbrec.raw_mb_type = 0 THEN "SI"
             ELSE "I")

\* An I macroblock of an I slice gets its coarse type.
MbTypeClearIntra ==
    /\ mbrec.pc = "constructed" /\ mbrec.slice_type = "I"
    /\ mbrec.raw_mb_type = I_PCM /\ mbrec.mb.mb_type_clear = "I"

(***************************************************************************)
(* h26x_extractor/macroblock.py: the static mb_type tables and             *)
(* MacroBlock.macroblock_table, MbPartPredMode and NumMbPart, called by    *)
(* macroblock_layer on the object it has just constructed.  A table is a   *)
(* function from the normalised mb_type to its row; na stands for None in  *)
(* a row.                                                                  *)
(***************************************************************************)

na == -1

Intra_4x4 == 0

Intra_8x8 == 1

Intra_16x16 == 2

MB_TYPE_TABLE_I ==
    1 :> <<2, na, 0, 0>>
    @@ 2 :> <<2, na, 0, 0>>
    @@ 3 :> <<2, na, 0, 0>>
    @@ 4 :> <<2, na, 0, 0>>
    @@ 5 :> <<2, na, 1, 0>>
    @@ 6 :> <<2, na, 1, 0>>
    @@ 7 :> <<2, na, 1, 0>>
    @@ 8 :> <<2, na, 1, 0>>
    @@ 9 :> <<2, na, 2, 0>>
    @@ 10 :> <<2, na, 2, 0>>
    @@ 11 :> <<2, na, 2, 0>>
    @@ 12 :> <<2, na, 2, 0>>
    @@ 13 :> <<2, na, 0, 15>>
    @@ 14 :> <<2, na, 0, 15>>
    @@ 15 :> <<2, na, 0, 15>>
    @@ 16 :> <<2, na, 0, 15>>
    @@ 17 :> <<2, na, 1, 15>>
    @@ 18 :> <<2, na, 1, 15>>
    @@ 19 :> <<2, na, 1, 15>>
    @@ 20 :> <<2, na, 1, 15>>
    @@ 21 :> <<2, na, 2, 15>>
    @@ 22 :> <<2, na, 2, 15>>
    @@ 23 :> <<2, na, 2, 15>>
    @@ 24 :> <<2, na, 2, 15>>

MB_TYPE_TABLE_P ==
    27 :> <<3, na, 16, 16, 1>>
    @@ 28 :> <<3, 3, 16, 8, 2>>
    @@ 39 :> <<3, 3, 8, 16, 2>>
    @@ 30 :> <<na, na, 8, 8, 4>>
    @@ 31 :> <<na, na, 8, 8, 4>>
    @@ 32 :> <<3, 3, 16, 16, 1>>

MB_TYPE_TABLE_B ==
    33 :> <<4, na, 8, 8, na>>
    @@ 34 :> <<3, na, 16, 16, 1>>
    @@ 35 :> <<5, na, 16, 16, 1>>
    @@ 36 :> <<6, na, 16, 16, 1>>
    @@ 37 :> <<3, 3, 16, 8, 2>>
    @@ 38 :> <<3, 3, 8, 16, 2>>
    @@ 39 :> <<5, 5, 16, 8, 2>>
    @@ 40 :> <<5, 5, 8, 16, 2>>
    @@ 41 :> <<3, 5, 16, 8, 2>>
    @@ 42 :> <<3, 5, 8, 16, 2>>
    @@ 43 :> <<5, 3, 16, 8, 2>>
    @@ 44 :> <<5, 3, 8, 16, 2>>
    @@ 45 :> <<3, 6, 16, 8, 2>>
    @@ 46 :> <<3, 6, 8, 16, 2>>
    @@ 47 :> <<5, 6, 16, 8, 2>>
    @@ 48 :> <<5, 6, 8, 16, 2>>
    @@ 49 :> <<6, 3, 16, 8, 2>>
    @@ 50 :> <<6, 3, 8, 16, 2>>
    @@ 51 :> <<6, 5, 16, 8, 2>>
    @@ 52 :> <<6, 5, 8, 16, 2>>
    @@ 53 :> <<6, 6, 16, 8, 2>>
    @@ 54 :> <<6, 6, 8, 16, 2>>
    @@ 55 :> <<na, na, 8, 8, 4>>
    @@ 56 :> <<4, na, 8, 8, na>>

\* MacroBlock.get_coded_block_pattern(): (CodedBlockPatternChroma, CodedBlockPatternLuma),
\* (0, 0) while coded_block_pattern is None or 0.
get_coded_block_pattern(coded_block_pattern) ==
    IF coded_block_pattern = na \/ coded_block_pattern = 0 THEN <<0, 0>>
    ELSE <<coded_block_pattern \div 16, coded_block_pattern % 16>>

\* MacroBlock.macroblock_table(): the row of self.mb_type, the KeyError of a
\* table that has no such key, or None when no branch returns.
macroblock_table(slice_type, mb_type, transform_size_8x8_flag, coded_block_pattern) ==
    LET cbp == get_coded_block_pattern(coded_block_pattern)
    IN  CASE slice_type = "I" ->
               IF mb_type \in DOMAIN MB_TYPE_TABLE_I
               THEN [ok |-> TRUE, error |-> "", row |-> MB_TYPE_TABLE_I[mb_type]]
               ELSE IF mb_type = 0 /\ transform_size_8x8_flag = 0
               THEN [ok |-> TRUE, error |-> "", row |-> <<Intra_4x4, na, cbp[2], cbp[1]>>]
               ELSE IF mb_type = 0 /\ transform_size_8x8_flag = 1
               THEN [ok |-> TRUE, error |-> "", row |-> <<Intra_8x8, na, cbp[2], cbp[1]>>]
               ELSE [ok |-> FALSE, error |-> "TypeError", row |-> <<>>]
          [] slice_type = "SI" ->
               [ok |-> TRUE, error |-> "", row |-> <<Intra_4x4, na, cbp[2], cbp[1]>>]
          [] slice_type \in {"P", "SP"} ->
               IF mb_type \in DOMAIN MB_TYPE_TABLE_P
               THEN [ok |-> TRUE, error |-> "", row |-> MB_TYPE_TABLE_P[mb_type]]
               ELSE [ok |-> FALSE, error |-> "KeyError", row |-> <<>>]
          [] slice_type = "B" ->
               IF mb_type \in DOMAIN MB_TYPE_TABLE_B
               THEN [ok |-> TRUE, error |-> "", row |-> MB_TYPE_TABLE_B[mb_type]]
               ELSE [ok |-> FALSE, error |-> "KeyError", row |-> <<>>]

\* MacroBlock.MbPartPredMode(mode): self.macroblock_table()[mode]
MbPartPredMode(table, mode) ==
    IF table.ok THEN [ok |-> TRUE, error |-> "", value |-> table.row[mode + 1]]
    ELSE [ok |-> FALSE, error |-> table.error, value |-> na]

\* MacroBlock.NumMbPart(): self.macroblock_table()[-1]
NumMbPart(table) ==
    IF table.ok THEN [ok |-> TRUE, error |-> "", value |-> table.row[Len(table.row)]]
    ELSE [ok |-> FALSE, error |-> table.error, value |-> na]

\* mb.MbPartPredMode(0), mb.MbPartPredMode(1) and mb.NumMbPart() on the
\* constructed object: coded_block_pattern is still None, and
\* transform_size_8x8_flag is 0 unless the stream set it.
ReadMbTable ==
    /\ mbrec.pc = "constructed"
    /\ \E transform_size_8x8_flag \in {0, 1} :
           LET table == macroblock_table(mbrec.mb.slice_type, mbrec.mb.mb_type,
                                         transform_size_8x8_flag, na)
           IN  mbrec' = [pc |-> "table_read", slice_type |-> mbrec.slice_type,
                         raw_mb_type |-> mbrec.raw_mb_type, mb |-> mbrec.mb,
                         table |-> table,
                         pred0 |-> MbPartPredMode(table, 0),
                         pred1 |-> MbPartPredMode(table, 1),
                         num |-> NumMbPart(table)]
    /\ UNCHANGED OthersOfMbrec

NextMbTable == ConstructMacroBlock \/ ReadMbTable

SpecMbTable == InitMbrec /\ [][NextMbTable]_vars

\* The static table of the macroblock class of a normalised mb_type: the I types
\* 1..24, the P types 27..31, the B types 33..55.
ClassTable(mb_type) ==
    IF mb_type \in 1..24 THEN MB_TYPE_TABLE_I
    ELSE IF mb_type \in 27..31 THEN MB_TYPE_TABLE_P
    ELSE MB_TYPE_TABLE_B

\* C11: for every slice type and every valid raw mb_type the normalised mb_type
\* has a row in the static table of its class, and MbPartPredMode(0),
\* MbPartPredMode(1) and NumMbPart() return that row's values; intra macroblocks
\* of P, SP and B slices resolve through the I table.
C11_TableRow ==
    mbrec.pc = "table_read" =>
        /\ mbrec.table.ok
        /\ (mbrec.mb.mb_type \in (1..24) \cup (27..31) \cup (33..55)) =>
              /\ mbrec.mb.mb_type \in DOMAIN ClassTable(mbrec.mb.mb_type)
              /\ mbrec.table.row = ClassTable(mbrec.mb.mb_type)[mbrec.mb.mb_type]
              /\ mbrec.pred0.value = mbrec.table.row[1]
              /\ mbrec.pred1.value = mbrec.table.row[2]
              /\ mbrec.num.value = mbrec.table.row[Len(mbrec.table.row)]

\* A P macroblock whose row is found: raw mb_type 1 of a P slice, P_L0_L0_16x8.
MbTableReadInter ==
    /\ mbrec.pc = "table_read" /\ mbrec.slice_type = "P" /\ mbrec.raw_mb_type = 1
    /\ mbrec.table.ok /\ mbrec.num.value = 2

(***************************************************************************)
(* Functions that read a bitstring.BitStream: a sequence of bits with a    *)
(* cursor pos, 0 <= pos <= len.  stream.read raises ReadError and leaves   *)
(* pos where it is when fewer bits are left than it needs; rfind returns   *)
(* a one-element tuple holding the position of the last match, or the      *)
(* empty tuple when there is none.                                         *)
(***************************************************************************)

\* The bound of the bit-reader runs: the bits of a stream.
MaxStreamBits == 8

\* The value of the bits as an unsigned number, most significant first.
RECURSIVE UintOf(_)
UintOf(bits) ==
    IF bits = <<>> THEN 0
    ELSE 2 * UintOf(SubSeq(bits, 1, Len(bits) - 1)) + bits[Len(bits)]

\* BitStream(s).rfind(Bits('0b1')): the tuple of the last position holding a 1.
rfind_one(stream) ==
    LET ones == {k \in 0..(Len(stream) - 1) : stream[k + 1] = 1}
    IN  IF ones = {} THEN <<>>
        ELSE <<CHOOSE k \in ones : \A j \in ones : j <= k>>

\* nalu_utils.more_rbsp_data(s).  last_one_pos, = (...) raises ValueError when
\* the tuple is empty.
more_rbsp_data(stream, pos) ==
    IF pos >= Len(stream) THEN [ok |-> TRUE, error |-> "", value |-> FALSE, pos |-> pos]
    ELSE LET found == rfind_one(stream)
         IN  IF Len(found) # 1
             THEN [ok |-> FALSE, error |-> "ValueError", value |-> FALSE, pos |-> pos]
             ELSE IF pos >= found[1]
             THEN [ok |-> TRUE, error |-> "", value |-> FALSE, pos |-> pos]
             ELSE [ok |-> TRUE, error |-> "", value |-> TRUE, pos |-> pos]

OthersOfReader == <<codec, crypter, cav, slice, ncv, resid, mbrec>>

\* A stream of up to MaxStreamBits bits with the cursor anywhere in it.
InitReader ==
    /\ \E stream \in SeqsUpTo(Bit, MaxStreamBits) :
           \E pos \in 0..Len(stream) :
               reader = [pc |-> "ready", stream |-> stream, pos |-> pos]
    /\ codec = Idle /\ crypter = Idle /\ cav = Idle /\ slice = Idle
    /\ ncv = Idle /\ resid = Idle /\ mbrec = Idle

\* The state after a call of fn with argument arg that gave r.
Returned(fn, arg, r) ==
    [pc |-> "returned", stream |-> reader.stream, start |-> reader.pos,
     fn |-> fn, arg |-> arg, pos |-> r.pos, ret |-> r]

\* nalu_utils.more_rbsp_data(self.s)
MoreRbspData ==
    /\ reader.pc = "ready"
    /\ reader' = Returned("more_rbsp_data", 0, more_rbsp_data(reader.stream, reader.pos))
    /\ UNCHANGED OthersOfReader

\* Whether the payload holds a 1 bit at an index greater than pos.
OneBitBeyond(stream, pos) ==
    \E k \in (pos + 1)..(Len(stream) - 1) : stream[k + 1] = 1

\* C12: more_rbsp_data returns true iff the payload holds a 1 bit at an index
\* strictly greater than the cursor position (so false at the end of the payload
\* and on the last 1 bit), and leaves the cursor where it was.
C12_MoreRbspData ==
    (reader.pc = "returned" /\ reader.fn = "more_rbsp_data") =>
        /\ reader.ret.ok
        /\ reader.ret.value = OneBitBeyond(reader.stream, reader.start)
        /\ reader.pos = reader.start

\* C12 restricted to payloads that hold a 1 bit, as every RBSP does.
MoreRbspDataWithOneBit ==
    (reader.pc = "returned" /\ reader.fn = "more_rbsp_data"
        /\ \E k \in 1..Len(reader.stream) : reader.stream[k] = 1) =>
        /\ reader.ret.ok
        /\ reader.ret.value = OneBitBeyond(reader.stream, reader.start)
        /\ reader.pos = reader.start

\* The bound of te's argument: value_range is drawn from 0..MaxValueRange.
MaxValueRange == 3

\* The number of 0 bits of the stream from index pos (0-based) on, up to the
\* first 1 bit or the end of the stream.
RECURSIVE LeadingZeros(_, _)
LeadingZeros(stream, pos) ==
    IF pos >= Len(stream) \/ stream[pos + 1] = 1 THEN 0
    ELSE 1 + LeadingZeros(stream, pos + 1)

\* stream.read("ue"): an unsigned Exp-Golomb code, k zeros, a one and k more
\* bits, worth 2^k - 1 + the k bits; ReadError when the stream ends inside it.
read_ue(stream, pos) ==
    LET k == LeadingZeros(stream, pos)
    IN  IF pos + 2 * k + 1 > Len(stream)
        THEN [ok |-> FALSE, error |-> "ReadError", value |-> 0, pos |-> pos]
        ELSE [ok |-> TRUE, error |-> "",
              value |-> Pow2(k) - 1 + UintOf(Slice(stream, pos + k + 1, pos + 2 * k + 1)),
              pos |-> pos + 2 * k + 1]

\* stream.read("uint:1")
read_uint1(stream, pos) ==
    IF pos >= Len(stream)
    THEN [ok |-> FALSE, error |-> "ReadError", value |-> 0, pos |-> pos]
    ELSE [ok |-> TRUE, error |-> "", value |-> stream[pos + 1], pos |-> pos + 1]

\* `range == 1` as te writes it: range is Python's builtin type, not the
\* argument value_range, and a type never equals 1.
range_eq_1 == FALSE

\* NALU.te and MacroBlock.te.
te(stream, pos, value_range) ==
    IF value_range <= 0 THEN [ok |-> TRUE, error |-> "", value |-> 0, pos |-> pos]
    ELSE IF range_eq_1
    THEN LET r == read_uint1(stream, pos)
         IN  [r EXCEPT !.value = IF r.ok THEN (IF r.value = 0 THEN 1 ELSE 0) ELSE 0]
    ELSE read_ue(stream, pos)

\* self.te(value_range)
Te ==
    /\ reader.pc = "ready"
    /\ \E value_range \in 0..MaxValueRange :
           reader' = Returned("te", value_range,
                              te(reader.stream, reader.pos, value_range))
    /\ UNCHANGED OthersOfReader

\* C13: te(1) reads exactly one bit and returns 1 if that bit is 0 and 0 if it
\* is 1; te(value_range) with value_range > 1 reads an unsigned Exp-Golomb code.
C13_TruncatedExpGolomb ==
    (reader.pc = "returned" /\ reader.fn = "te") =>
        /\ (reader.arg = 1 /\ reader.start < Len(reader.stream)) =>
               /\ reader.ret.ok
               /\ reader.pos = reader.start + 1
               /\ reader.ret.value = 1 - reader.stream[reader.start + 1]
        /\ reader.arg > 1 => reader.ret = read_ue(reader.stream, reader.start)

\* The part of C13 about value_range > 1, and value_range <= 0 reading nothing.
TeOutsideOne ==
    (reader.pc = "returned" /\ reader.fn = "te" /\ reader.arg # 1) =>
        IF reader.arg > 1 THEN reader.ret = read_ue(reader.stream, reader.start)
        ELSE reader.ret.value = 0 /\ reader.pos = reader.start

\* The 6-bit code mapped by its quotient and remainder alone, without the
\* three codes coeff_token_8_quick sets apart.
coeff_token_8_quick_Plain(stream, pos) ==
    IF Len(stream) < 6
    THEN [ok |-> FALSE, error |-> "ValueError", value |-> <<>>, pos |-> pos]
    ELSE IF pos + 6 > Len(stream)
    THEN [ok |-> FALSE, error |-> "ReadError", value |-> <<>>, pos |-> pos]
    ELSE LET code == UintOf(Slice(stream, pos, pos + 6))
         IN  [ok |-> TRUE, error |-> "",
              value |-> <<code \div 4 + 1, code % 4>>, pos |-> pos + 6]

\* cavlc.coeff_token_8_quick(stream), which coeff_token1 calls for nC >= 8;
\* value is (TotalCoeff, TrailingOnes).
coeff_token_8_quick(stream, pos) ==
    IF Len(stream) < 6
    THEN [ok |-> FALSE, error |-> "ValueError", value |-> <<>>, pos |-> pos]
    ELSE IF pos + 6 > Len(stream)
    THEN [ok |-> FALSE, error |-> "ReadError", value |-> <<>>, pos |-> pos]
    ELSE LET code == UintOf(Slice(stream, pos, pos + 6))
             TrailingOnes == code % 4
             TotalCoeff == code \div 4 + 1
         IN  [ok |-> TRUE, error |-> "",
              value |-> CASE code = 3 -> <<0, 0>>
                          [] code = 0 -> <<1, 0>>
                          [] code = 1 -> <<1, 1>>
                          [] OTHER -> <<TotalCoeff, TrailingOnes>>,
              pos |-> pos + 6]

\* coeff_token1(stream, nC) with nC >= 8
CoeffToken8Quick ==
    /\ reader.pc = "ready"
    /\ reader' = Returned("coeff_token_8_quick", 8,
                          coeff_token_8_quick(reader.stream, reader.pos))
    /\ UNCHANGED OthersOfReader

C14_WitnessZero ==
    /\ reader.pc = "returned" /\ reader.fn = "coeff_token_8_quick"
    /\ Slice(reader.stream, reader.start, reader.start + 6) = BitsOf(3, 6)
    /\ reader.ret.ok /\ reader.ret.value = <<0, 0>>

\* The loop of parse_level_prefix with the count one too high.
parse_level_prefix_CountsOne(stream, pos) ==
    LET k == LeadingZeros(stream, pos)
    IN  IF pos + k >= Len(stream)
        THEN [ok |-> FALSE, error |-> "ReadError", value |-> 0, pos |-> Len(stream)]
        ELSE [ok |-> TRUE, error |-> "", value |-> k + 1, pos |-> pos + k + 1]

\* cavlc.parse_level_prefix(s): one bit is read per turn of the loop, so a
\* stream that ends before a 1 bit raises ReadError with every bit consumed.
parse_level_prefix(stream, pos) ==
    LET leadingZeroBits == LeadingZeros(stream, pos)
    IN  IF pos + leadingZeroBits >= Len(stream)
        THEN [ok |-> FALSE, error |-> "ReadError", value |-> 0, pos |-> Len(stream)]
        ELSE [ok |-> TRUE, error |-> "", value |-> leadingZeroBits,
              pos |-> pos + leadingZeroBits + 1]

\* cavlc.parse_level_prefix(self.s)
ParseLevelPrefix ==
    /\ reader.pc = "ready"
    /\ reader' = Returned("parse_level_prefix", 0,
                          parse_level_prefix(reader.stream, reader.pos))
    /\ UNCHANGED OthersOfReader

\* C15: parse_level_prefix returns the number k of consecutive 0 bits found at
\* the cursor and leaves the cursor k + 1 bits further, just after the
\* terminating 1 bit.
C15_LevelPrefix ==
    \A k \in 0..MaxStreamBits :
        (/\ reader.pc = "returned" /\ reader.fn = "parse_level_prefix"
         /\ reader.start + k < Len(reader.stream)
         /\ \A j \in 1..k : reader.stream[reader.start + j] = 0
         /\ reader.stream[reader.start + k + 1] = 1) =>
            /\ reader.ret.ok
            /\ reader.ret.value = k
            /\ reader.pos = reader.start + k + 1

\* The byte 0x01 read from bit 0 has given 7 with the cursor at bit 8.
C15_Witness ==
    /\ reader.pc = "returned" /\ reader.fn = "parse_level_prefix"
    /\ reader.stream = <<0, 0, 0, 0, 0, 0, 0, 1>> /\ reader.start = 0
    /\ reader.ret.ok /\ reader.ret.value = 7 /\ reader.pos = 8

NextReader == MoreRbspData \/ Te \/ CoeffToken8Quick \/ ParseLevelPrefix

SpecReader == InitReader /\ [][NextReader]_vars

(***************************************************************************)
(* h26x_extractor/cavlc.py: the failure paths of coeff_token,               *)
(* parse_total_zeros and parse_run_before.  total_zeros_4_8.txt and        *)
(* run_before.txt are read at import; their contents are those of          *)
(* Tables 9-9(a) and 9-10, kept as sets of <<length, value, ...>>.         *)
(***************************************************************************)

\* The bounds of the failure runs: every stream of up to MaxVlcBits bits, and
\* the all-zero streams of up to MaxZeroRun bits, which hit no table.
MaxVlcBits == 5

MaxZeroRun == 18

\* total_zeros_table_4_8: <<length, value, tzVlcIndex, total_zeros>>.
total_zeros_table_4_8 ==
    {<<1, 1, 1, 0>>, <<2, 1, 1, 1>>, <<3, 1, 1, 2>>, <<3, 0, 1, 3>>,
     <<1, 1, 2, 0>>, <<2, 1, 2, 1>>, <<2, 0, 2, 2>>,
     <<1, 1, 3, 0>>, <<1, 0, 3, 1>>}

\* run_before_table: one set of <<length, value, run_before>> per index 0..7
\* (index 7 is the column zerosLeft > 6, index 0 stays empty).
run_before_table ==
    << {},
       {<<1, 1, 0>>, <<1, 0, 1>>},
       {<<1, 1, 0>>, <<2, 1, 1>>, <<2, 0, 2>>},
       {<<2, 3, 0>>, <<2, 2, 1>>, <<2, 1, 2>>, <<2, 0, 3>>},
       {<<2, 3, 0>>, <<2, 2, 1>>, <<2, 1, 2>>, <<3, 1, 3>>, <<3, 0, 4>>},
       {<<2, 3, 0>>, <<2, 2, 1>>, <<3, 3, 2>>, <<3, 2, 3>>, <<3, 1, 4>>, <<3, 0, 5>>},
       {<<2, 3, 0>>, <<3, 0, 1>>, <<3, 1, 2>>, <<3, 3, 3>>, <<3, 2, 4>>, <<3, 5, 5>>,
        <<3, 4, 6>>},
       {<<3, 7, 0>>, <<3, 6, 1>>, <<3, 5, 2>>, <<3, 4, 3>>, <<3, 3, 4>>, <<3, 2, 5>>,
        <<3, 1, 6>>, <<4, 1, 7>>, <<5, 1, 8>>, <<6, 1, 9>>, <<7, 1, 10>>, <<8, 1, 11>>,
        <<9, 1, 12>>, <<10, 1, 13>>, <<11, 1, 14>>} >>

\* The while loop of parse_total_zeros and of parse_run_before over the
\* <<length, value, result>> entries of the chosen table: one bit per turn while
\* curr_len <= max_len; s.read past the end raises ReadError where the cursor
\* stands, leaving the loop without a hit restores the cursor and raises ValueError.
RECURSIVE VlcLoop(_, _, _, _, _, _, _)
VlcLoop(stream, start, pos, curr_len, curr_val, max_len, table) ==
    IF curr_len > max_len
    THEN [ok |-> FALSE, error |-> "ValueError", value |-> -1, pos |-> start]
    ELSE IF pos >= Len(stream)
    THEN [ok |-> FALSE, error |-> "ReadError", value |-> -1, pos |-> pos]
    ELSE LET val  == curr_val * 2 + stream[pos + 1]
             len  == curr_len + 1
             hits == {e \in table : e[1] = len /\ e[2] = val}
         IN  IF hits # {}
             THEN [ok |-> TRUE, error |-> "", value |-> (CHOOSE h \in hits : TRUE)[3],
                   pos |-> pos + 1]
             ELSE VlcLoop(stream, start, pos + 1, len, val, max_len, table)

\* cavlc.parse_total_zeros(s, maxNumCoeff, tzVlcIndex) for the chroma DC block
\* of 4:2:0 (maxNumCoeff 4) and of 4:2:2 (maxNumCoeff 8).
parse_total_zeros(stream, pos, maxNumCoeff, tzVlcIndex) ==
    IF maxNumCoeff = 4
    THEN VlcLoop(stream, pos, pos, 0, 0, 3,
                 {<<e[1], e[2], e[4]>> : e \in {t \in total_zeros_table_4_8 : t[3] = tzVlcIndex}})
    ELSE [ok |-> FALSE, error |-> "NotImplementedError", value |-> -1, pos |-> pos]

\* cavlc.parse_run_before(s, zerosLeft)
parse_run_before(stream, pos, zerosLeft) ==
    IF zerosLeft > 6
    THEN VlcLoop(stream, pos, pos, 0, 0, 11, run_before_table[Len(run_before_table)])
    ELSE VlcLoop(stream, pos, pos, 0, 0, IF zerosLeft <= 3 THEN 2 ELSE 3,
                 run_before_table[zerosLeft + 1])

\* The all-zero streams.
ZeroRun(n) == [k \in 1..n |-> 0]

InitVlc ==
    /\ \E stream \in SeqsUpTo(Bit, MaxVlcBits) \cup {ZeroRun(n) : n \in 0..MaxZeroRun} :
           \E pos \in 0..Len(stream) :
               reader = [pc |-> "ready", stream |-> stream, pos |-> pos]
    /\ codec = Idle /\ crypter = Idle /\ cav = Idle /\ slice = Idle
    /\ ncv = Idle /\ resid = Idle /\ mbrec = Idle

\* cavlc.coeff_token(self.s, nC)
VlcCoeffToken ==
    /\ reader.pc = "ready"
    /\ \E nC \in 0..7 :
           LET r == coeff_token(reader.stream, reader.pos, nC)
           IN  reader' = Returned("coeff_token", nC,
                                  [ok |-> r.ok, error |-> r.error,
                                   value |-> <<r.TotalCoeff, r.TrailingOnes>>, pos |-> r.pos])
    /\ UNCHANGED OthersOfReader

\* cavlc.parse_total_zeros(self.s, maxNumCoeff, tzVlcIndex)
VlcTotalZeros ==
    /\ reader.pc = "ready"
    /\ \E maxNumCoeff \in {4, 8}, tzVlcIndex \in 1..3 :
           reader' = Returned("parse_total_zeros", <<maxNumCoeff, tzVlcIndex>>,
                              parse_total_zeros(reader.stream, reader.pos,
                                                maxNumCoeff, tzVlcIndex))
    /\ UNCHANGED OthersOfReader

\* cavlc.parse_run_before(self.s, zerosLeft)
VlcRunBefore ==
    /\ reader.pc = "ready"
    /\ \E zerosLeft \in 1..7 :
           reader' = Returned("parse_run_before", zerosLeft,
                              parse_run_before(reader.stream, reader.pos, zerosLeft))
    /\ UNCHANGED OthersOfReader

NextVlc == VlcCoeffToken \/ VlcTotalZeros \/ VlcRunBefore

SpecVlc == InitVlc /\ [][NextVlc]_vars

\* C16: whenever coeff_token, parse_total_zeros or parse_run_before fails to
\* decode a code (no table hit within the table's maximum length, or the input
\* ends first), the cursor after the failure is where it was at the call.
C16_FailureRestoresCursor ==
    (reader.pc = "returned" /\ ~reader.ret.ok) => reader.pos = reader.start

\* The part of C16 about running past the table's maximum length.
NoHitRestoresCursor ==
    (reader.pc = "returned" /\ reader.ret.error = "ValueError") =>
        reader.pos = reader.start

\* Each decoder has run past its maximum length on a stream it had begun to read.
NoHitHappens ==
    /\ reader.pc = "returned" /\ reader.ret.error = "ValueError"
    /\ reader.start > 0

(***************************************************************************)
(* h26x_extractor/nalutypes.py: VCLSlice.__init__, the parse of one slice  *)
(* on the SPS and PPS objects it is given: slice_header, then slice_data   *)
(* with setup_slice_data, the CABAC test and the macroblock loop.  The     *)
(* slice object holds references to the two parameter-set objects, so the  *)
(* record of the slice carries them, next to a copy of what they held when *)
(* the slice was constructed.  Values read from the bitstream are inputs;  *)
(* a read may also run off the end of the stream.  macroblock_layer is     *)
(* kept as its effect on self.macroblocks and its outcome.                 *)
(***************************************************************************)

\* The bounds of the slice-parse runs.
MaxPicWidthInMbsMinus1 == 1

MaxPicHeightInMapUnitsMinus1 == 1

MaxFirstMbInSlice == 1

MaxMbSkipRun == 1

\* The macroblock loop is followed while CurrMbAddr is at most MaxCurrMbAddr.
MaxCurrMbAddr == 5

\* SPS objects: the fields the slice parse reads.  mb_adaptive_frame_field_flag
\* is read only when frame_mbs_only_flag is 0 and is falsy otherwise.
SpsObjects ==
    {[frame_mbs_only_flag |-> f, mb_adaptive_frame_field_flag |-> a,
      pic_width_in_mbs_minus1 |-> w, pic_height_in_map_units_minus1 |-> h] :
        f \in {0, 1}, a \in {0, 1},
        w \in 0..MaxPicWidthInMbsMinus1, h \in 0..MaxPicHeightInMapUnitsMinus1}

\* PPS objects: slice_group_map_type is read only when there is more than one
\* slice group and is 0 otherwise; of run_length_minus1 the entries of the
\* groups are kept, the only ones the slice parse reads.
PpsObjects ==
    UNION {{[entropy_coding_mode_flag |-> e, num_slice_groups_minus1 |-> g,
             slice_group_map_type |-> t, run_length_minus1 |-> rl] :
                e \in {0, 1}, t \in (IF g = 0 THEN {0} ELSE {0, 1}),
                rl \in [1..(g + 1) -> 0..1]} : g \in 0..1}

\* VCLSlice.__init__ up to the call of slice_header: the attributes the parse
\* goes on to use, with 0 or NoAddr for None.
NewSlice(nalu_sps, nalu_pps) ==
    [pc |-> "constructed", sps |-> nalu_sps, pps |-> nalu_pps,
     given |-> [sps |-> nalu_sps, pps |-> nalu_pps],
     first_mb_in_slice |-> NoAddr, slice_type_clear |-> "", field_pic_flag |-> 0,
     PicSizeInMapUnits |-> 0, PicWidthInMbs |-> 0, PicHeightInMbs |-> 0,
     MbaffFrameFlag |-> 0, PicSizeInMbs |-> 0, MbToSliceGroupMap |-> <<>>,
     macroblocks |-> {}, CurrMbAddr |-> NoAddr, moreDataFlag |-> FALSE,
     mb_skip_run |-> 0, passed |-> <<>>,
     error |-> "", raised_in |-> ""]

\* The slice after an exception has left the parse.
Raise(s, error, raised_in) ==
    [s EXCEPT !.pc = "failed", !.error = error, !.raised_in = raised_in]

\* A slice_header that keeps the derived picture width on the SPS object, where
\* setup_MbToSliceGroupMap looks for it.
slice_header_WidthOnSps(s, first_mb_in_slice, slice_type_clear, field_pic_flag) ==
    LET PicHeightInMapUnits == s.sps.pic_height_in_map_units_minus1 + 1
        PicWidthInMbs == s.sps.pic_width_in_mbs_minus1 + 1
        FrameHeightInMbs == (2 - s.sps.frame_mbs_only_flag) * PicHeightInMapUnits
    IN  [s EXCEPT !.pc = "header_parsed",
                  !.first_mb_in_slice = first_mb_in_slice,
                  !.slice_type_clear = slice_type_clear,
                  !.field_pic_flag = field_pic_flag,
                  !.PicSizeInMapUnits = PicWidthInMbs * PicHeightInMapUnits,
                  !.PicWidthInMbs = PicWidthInMbs,
                  !.PicHeightInMbs = FrameHeightInMbs \div (1 + field_pic_flag),
                  !.sps = [f \in DOMAIN s.sps \cup {"PicWidthInMbs"} |->
                              IF f = "PicWidthInMbs" THEN PicWidthInMbs ELSE s.sps[f]]]

\* VCLSlice.slice_header with the values it has read: the fields are stored on
\* the slice, and so is the geometry derived from the SPS.
slice_header(s, first_mb_in_slice, slice_type_clear, field_pic_flag) ==
    LET PicHeightInMapUnits == s.sps.pic_height_in_map_units_minus1 + 1
        PicWidthInMbs == s.sps.pic_width_in_mbs_minus1 + 1
        PicSizeInMapUnits == PicWidthInMbs * PicHeightInMapUnits
        FrameHeightInMbs == (2 - s.sps.frame_mbs_only_flag) * PicHeightInMapUnits
        PicHeightInMbs == FrameHeightInMbs \div (1 + field_pic_flag)
    IN  [s EXCEPT !.pc = "header_parsed",
                  !.first_mb_in_slice = first_mb_in_slice,
                  !.slice_type_clear = slice_type_clear,
                  !.field_pic_flag = field_pic_flag,
                  !.PicSizeInMapUnits = PicSizeInMapUnits,
                  !.PicWidthInMbs = PicWidthInMbs,
                  !.PicHeightInMbs = PicHeightInMbs]

\* setup_MbToSliceGroupMap(sps, pps) on the slice s, whose MbaffFrameFlag and
\* PicSizeInMbs are set: MbToSliceGroupMap has PicSizeInMapUnits entries and is
\* written at every i in range(PicSizeInMbs).
setup_MbToSliceGroupMap_of(s) ==
    IF s.pps.slice_group_map_type # 0
    THEN Raise(s, "NotImplementedError", "setup_MbToSliceGroupMap")
    ELSE LET mapUnitToSliceGroupMap ==
                 MapUnitLoop([k \in 1..s.PicSizeInMapUnits |-> 0], s.PicSizeInMapUnits,
                             s.pps.num_slice_groups_minus1, s.pps.run_length_minus1, 0)
         IN  IF s.sps.frame_mbs_only_flag = 1 \/ s.field_pic_flag = 1
             THEN IF s.PicSizeInMbs > s.PicSizeInMapUnits
                  THEN Raise(s, "IndexError", "setup_MbToSliceGroupMap")
                  ELSE [s EXCEPT !.MbToSliceGroupMap =
                            [k \in 1..s.PicSizeInMapUnits |->
                                IF k <= s.PicSizeInMbs THEN mapUnitToSliceGroupMap[k] ELSE 0]]
             ELSE IF s.MbaffFrameFlag = 1
             THEN IF s.PicSizeInMbs > s.PicSizeInMapUnits
                  THEN Raise(s, "IndexError", "setup_MbToSliceGroupMap")
                  ELSE [s EXCEPT !.MbToSliceGroupMap =
                            [k \in 1..s.PicSizeInMapUnits |->
                                IF k <= s.PicSizeInMbs
                                THEN mapUnitToSliceGroupMap[(k - 1) \div 2 + 1] ELSE 0]]
             ELSE IF s.sps.frame_mbs_only_flag = 0
                     /\ s.sps.mb_adaptive_frame_field_flag = 0 /\ s.field_pic_flag = 0
             THEN Raise(s, "AttributeError", "setup_MbToSliceGroupMap")
             ELSE Raise(s, "ValueError", "setup_MbToSliceGroupMap")

\* setup_slice_data(): MbaffFrameFlag and PicSizeInMbs, then the slice-group map.
setup_slice_data(s) ==
    setup_MbToSliceGroupMap_of(
        [s EXCEPT !.MbaffFrameFlag =
                      IF s.sps.mb_adaptive_frame_field_flag = 1 /\ s.field_pic_flag = 0
                      THEN 1 ELSE 0,
                  !.PicSizeInMbs = s.PicWidthInMbs * s.PicHeightInMbs])

\* Whether slice_data stops at `if pps.entropy_coding_mode_flag`.
cabac_unsupported(pps) == pps.entropy_coding_mode_flag # 0

\* slice_data() up to its while loop.
slice_data_begin(s) ==
    LET t == setup_slice_data(s)
    IN  IF t.pc = "failed" THEN t
        ELSE IF cabac_unsupported(t.pps)
        THEN Raise(t, "NotImplementedError", "slice_data")
        ELSE [t EXCEPT !.pc = "decoding",
                       !.CurrMbAddr = t.first_mb_in_slice * (1 + t.MbaffFrameFlag),
                       !.moreDataFlag = TRUE]

\* for i in range(self.mb_skip_run): CurrMbAddr = self.NextMbAddress(CurrMbAddr)
RECURSIVE SkipRun(_, _, _)
SkipRun(s, CurrMbAddr, run) ==
    IF run = 0 THEN CurrMbAddr
    ELSE SkipRun(s, NextMbAddress(s.MbToSliceGroupMap, s.PicSizeInMbs, CurrMbAddr), run - 1)

\* The outcomes of macroblock_layer(CurrMbAddr): an exception before
\* self.macroblocks[CurrMbAddr] = mb, an exception after it, or a return.
MacroblockLayerOutcomes == {"raised_before_store", "raised_after_store", "returned"}

\* The first half of a turn of the while loop of slice_data: in a slice that is
\* not I or SI, mb_skip_run is read, CurrMbAddr is advanced and, after a run,
\* moreDataFlag is refreshed.
slice_data_skip(s, mb_skip_run, moreAfterSkip) ==
    IF s.slice_type_clear # "I" /\ s.slice_type_clear # "SI"
    THEN [s EXCEPT !.pc = "macroblock",
                   !.mb_skip_run = mb_skip_run,
                   !.CurrMbAddr = SkipRun(s, s.CurrMbAddr, mb_skip_run),
                   !.moreDataFlag = IF mb_skip_run > 0 THEN moreAfterSkip ELSE @]
    ELSE [s EXCEPT !.pc = "macroblock"]

\* A second half that calls macroblock_layer whatever moreDataFlag holds.
slice_data_macroblock_Always(s, outcome, moreAfterMb) ==
    LET passed == [s EXCEPT !.passed = Append(@, s.CurrMbAddr)]
        stored == [passed EXCEPT !.macroblocks = @ \cup {s.CurrMbAddr}]
    IN  IF outcome = "raised_before_store" THEN Raise(passed, "Error", "macroblock_layer")
        ELSE IF outcome = "raised_after_store" THEN Raise(stored, "Error", "macroblock_layer")
        ELSE [stored EXCEPT !.CurrMbAddr = NextMbAddress(s.MbToSliceGroupMap,
                                                         s.PicSizeInMbs, s.CurrMbAddr),
                            !.moreDataFlag = moreAfterMb,
                            !.pc = IF moreAfterMb THEN "decoding" ELSE "done"]

\* The second half of the turn: macroblock_layer(CurrMbAddr) if moreDataFlag,
\* then moreDataFlag = self.more_rbsp_data() and CurrMbAddr = NextMbAddress(CurrMbAddr).
\* passed lists the addresses macroblock_layer was called with.  Without a call
\* the cursor has not moved since more_rbsp_data() gave false, and gives it again.
slice_data_macroblock(s, outcome, moreAfterMb) ==
    LET passed == [s EXCEPT !.passed = Append(@, s.CurrMbAddr)]
        stored == [passed EXCEPT !.macroblocks = @ \cup {s.CurrMbAddr}]
        after  == IF s.moreDataFlag THEN stored ELSE s
        more   == IF s.moreDataFlag THEN moreAfterMb ELSE FALSE
    IN  IF s.moreDataFlag /\ outcome = "raised_before_store"
        THEN Raise(passed, "Error", "macroblock_layer")
        ELSE IF s.moreDataFlag /\ outcome = "raised_after_store"
        THEN Raise(stored, "Error", "macroblock_layer")
        ELSE [after EXCEPT !.CurrMbAddr = NextMbAddress(s.MbToSliceGroupMap,
                                                        s.PicSizeInMbs, s.CurrMbAddr),
                           !.moreDataFlag = more,
                           !.pc = IF more THEN "decoding" ELSE "done"]

OthersOfParse == <<codec, crypter, cav, ncv, resid, mbrec, reader>>

InitParse ==
    /\ \E nalu_sps \in SpsObjects, nalu_pps \in PpsObjects :
           /\ nalu_sps.frame_mbs_only_flag = 1 => nalu_sps.mb_adaptive_frame_field_flag = 0
           /\ slice = NewSlice(nalu_sps, nalu_pps)
    /\ codec = Idle /\ crypter = Idle /\ cav = Idle
    /\ ncv = Idle /\ resid = Idle /\ mbrec = Idle /\ reader = Idle

\* self.slice_header(): field_pic_flag is read only when frame_mbs_only_flag is 0.
SliceHeader ==
    /\ slice.pc = "constructed"
    /\ \/ \E first_mb_in_slice \in 0..MaxFirstMbInSlice, slice_type_clear \in {"I", "P"},
             field_pic_flag \in {0, 1} :
              /\ slice.sps.frame_mbs_only_flag = 1 => field_pic_flag = 0
              /\ slice' = slice_header(slice, first_mb_in_slice, slice_type_clear,
                                       field_pic_flag)
       \/ slice' = Raise(slice, "ReadError", "slice_header")
    /\ UNCHANGED OthersOfParse

\* self.slice_data(), up to the while loop
SliceDataBegin ==
    /\ slice.pc = "header_parsed"
    /\ slice' = slice_data_begin(slice)
    /\ UNCHANGED OthersOfParse

\* self.slice_data(), a turn of the while loop up to `if moreDataFlag:`; the read
\* of mb_skip_run may run off the end of the stream.
SliceDataSkip ==
    /\ slice.pc = "decoding"
    /\ slice.CurrMbAddr <= MaxCurrMbAddr
    /\ \/ \E mb_skip_run \in 0..MaxMbSkipRun, moreAfterSkip \in BOOLEAN :
              slice' = slice_data_skip(slice, mb_skip_run, moreAfterSkip)
       \/ /\ slice.slice_type_clear # "I"
          /\ slice' = Raise(slice, "ReadError", "slice_data")
    /\ UNCHANGED OthersOfParse

\* self.slice_data(), the rest of the turn
SliceDataMacroblock ==
    /\ slice.pc = "macroblock"
    /\ \E outcome \in MacroblockLayerOutcomes, moreAfterMb \in BOOLEAN :
           slice' = slice_data_macroblock(slice, outcome, moreAfterMb)
    /\ UNCHANGED OthersOfParse

NextParse == SliceHeader \/ SliceDataBegin \/ SliceDataSkip \/ SliceDataMacroblock

SpecParse == InitParse /\ [][NextParse]_vars

\* C17: parsing a slice, whether it completes or aborts with any error, never
\* modifies the SPS and PPS records it was given: every field of both is the
\* same after the slice parse as before.
C17_ParameterSetsUnchanged ==
    slice.pc # "idle" => (slice.sps = slice.given.sps /\ slice.pps = slice.given.pps)

\* A slice parse has completed with two macroblocks decoded on a PPS with two
\* slice groups, and the parameter sets are as given.
C17_Witness ==
    /\ slice.pc = "done"
    /\ Cardinality(slice.macroblocks) >= 2
    /\ slice.pps.num_slice_groups_minus1 = 1
    /\ slice.sps = slice.given.sps /\ slice.pps = slice.given.pps

\* A slice parse has been aborted inside a macroblock, after one was decoded.
C17_WitnessAborted ==
    /\ slice.pc = "failed" /\ slice.raised_in = "macroblock_layer"
    /\ slice.macroblocks # {}
    /\ slice.sps = slice.given.sps /\ slice.pps = slice.given.pps

\* C18: when the PPS has entropy_coding_mode_flag = 1, parsing the slice data
\* fails with the Unsupported error before any macroblock is decoded: the slice's
\* macroblock map is empty when the error is raised.
C18_CabacUnsupported ==
    (slice.pc \notin {"idle", "constructed", "header_parsed"}
        /\ slice.raised_in # "slice_header"
        /\ slice.pps.entropy_coding_mode_flag = 1) =>
        /\ slice.pc = "failed"
        /\ slice.error = "NotImplementedError"
        /\ slice.macroblocks = {}

\* C18 for the pictures whose slice-group map setup_slice_data can build.
CabacUnsupportedAfterSetup ==
    (slice.pc \notin {"idle", "constructed", "header_parsed"}
        /\ slice.raised_in # "slice_header"
        /\ slice.pps.entropy_coding_mode_flag = 1
        /\ (slice.sps.frame_mbs_only_flag = 1 \/ slice.field_pic_flag = 1)) =>
        /\ slice.pc = "failed"
        /\ slice.error = "NotImplementedError"
        /\ slice.macroblocks = {}

\* With CABAC, no slice ever has a macroblock.
CabacNoMacroblock ==
    (slice.pc # "idle" /\ slice.pps.entropy_coding_mode_flag = 1) =>
        (slice.macroblocks = {} /\ slice.pc # "decoding" /\ slice.pc # "done")

\* The CABAC test itself has stopped a slice.
CabacTestReached ==
    /\ slice.pc = "failed" /\ slice.raised_in = "slice_data"
    /\ slice.error = "NotImplementedError"

(***************************************************************************)
(* h26x_extractor/nalutypes.py: the end of macroblock_layer, residual and  *)
(* residual_luma for CAVLC without the 8x8 transform, on the MacroBlock    *)
(* object of macroblock.py.  Each call of residual_block reads at least    *)
(* the coeff_token of its block; the zero-filling branches read nothing.   *)
(***************************************************************************)

\* The bound of the residual_luma runs: coded_block_pattern is 0..MaxCodedBlockPattern.
MaxCodedBlockPattern == 47

\* x & (1 << i) as a truth value.
BitSet(x, i) == (x \div Pow2(i)) % 2 = 1

\* The luma blocks residual_luma hands to residual_block and those it fills with
\* zeros.  The first element of get_coded_block_pattern's result is bound to the
\* local name CodedBlockPatternLuma.
residual_luma(mb) ==
    LET cbp == get_coded_block_pattern(mb.coded_block_pattern)
        CodedBlockPatternLuma == cbp[1]
        CodedBlockPatternChroma == cbp[2]
        blocks == {i8x8 * 4 + i4x4 : i8x8 \in 0..3, i4x4 \in 0..3}
        coded == {BlkIdx \in blocks : BitSet(CodedBlockPatternLuma, BlkIdx \div 4)}
    IN  [decoded |-> coded, zeroed |-> blocks \ coded]

OthersOfLuma == <<codec, crypter, cav, slice, ncv, resid, reader>>

\* macroblock_layer has constructed the MacroBlock of an I slice or of a
\* P_L0_16x16 macroblock and has read coded_block_pattern when
\* MbPartPredMode(0) is not Intra_16x16.
InitLuma ==
    /\ \E slice_type \in {"I", "P"}, coded_block_pattern \in {na} \cup 0..MaxCodedBlockPattern :
           \E mb_type \in (IF slice_type = "I" THEN 0..24 ELSE {0}) :
               LET mb    == MacroBlockParsed(slice_type, mb_type)
                   table == macroblock_table(mb.slice_type, mb.mb_type, 0, na)
               IN  /\ table.ok
                   /\ (coded_block_pattern = na) = (table.row[1] = Intra_16x16)
                   /\ mbrec = [pc |-> "cbp_read", slice_type |-> slice_type,
                               raw_mb_type |-> mb_type,
                               mb |-> [slice_type |-> mb.slice_type, mb_type |-> mb.mb_type,
                                       transform_size_8x8_flag |-> 0,
                                       coded_block_pattern |-> coded_block_pattern],
                               row |-> table.row,
                               decoded |-> {}, zeroed |-> {}]
    /\ codec = Idle /\ crypter = Idle /\ cav = Idle
    /\ slice = Idle /\ ncv = Idle /\ resid = Idle /\ reader = Idle

\* if CodedBlockPatternLuma > 0 or CodedBlockPatternChroma > 0 or
\*    mb.MbPartPredMode(0) == Intra_16x16: ... self.residual(0, 15, mb)
MacroblockResidual ==
    /\ mbrec.pc = "cbp_read"
    /\ LET cbp == get_coded_block_pattern(mbrec.mb.coded_block_pattern)
           r   == residual_luma(mbrec.mb)
       IN  IF cbp[1] > 0 \/ cbp[2] > 0 \/ mbrec.row[1] = Intra_16x16
           THEN mbrec' = [mbrec EXCEPT !.pc = "residual_done",
                                       !.decoded = r.decoded, !.zeroed = r.zeroed]
           ELSE mbrec' = [mbrec EXCEPT !.pc = "no_residual"]
    /\ UNCHANGED OthersOfLuma

NextLuma == MacroblockResidual

SpecLuma == InitLuma /\ [][NextLuma]_vars

\* The CodedBlockPatternLuma of a macroblock: coded_block_pattern mod 16 when it
\* read coded_block_pattern, the luma value of its table row when Intra_16x16.
LumaPatternOf(m) ==
    IF m.row[1] = Intra_16x16 THEN m.row[4] ELSE m.mb.coded_block_pattern % 16

\* C20: residual_luma decodes the four 4x4 blocks of luma 8x8 group i8x8 iff bit
\* i8x8 of the macroblock's CodedBlockPatternLuma is set (coded_block_pattern mod
\* 16, or the table's luma value for Intra_16x16); for an unset bit the blocks are
\* zero-filled and nothing is read.  CodedBlockPatternChroma has no influence.
C20_LumaGating ==
    mbrec.pc = "residual_done" =>
        \A i8x8 \in 0..3, i4x4 \in 0..3 :
            /\ (i8x8 * 4 + i4x4 \in mbrec.decoded) <=> BitSet(LumaPatternOf(mbrec), i8x8)
            /\ (i8x8 * 4 + i4x4 \in mbrec.zeroed) <=> ~BitSet(LumaPatternOf(mbrec), i8x8)

\* The part of C20 that holds: each block is either decoded or zero-filled, and
\* the four blocks of a group fare alike.
LumaGroupsWhole ==
    mbrec.pc = "residual_done" =>
        /\ mbrec.decoded \cap mbrec.zeroed = {}
        /\ \A i8x8 \in 0..3, i4x4 \in 0..3 :
               (i8x8 * 4 + i4x4 \in mbrec.decoded) <=> (i8x8 * 4 \in mbrec.decoded)

(***************************************************************************)
(* The macroblock loop of VCLSlice.slice_data, on the slice parse above.   *)
(***************************************************************************)

\* CurrMbAddr after k applications of NextMbAddress.
RECURSIVE Advanced(_, _, _)
Advanced(s, addr, k) ==
    IF k = 0 THEN addr
    ELSE NextMbAddress(s.MbToSliceGroupMap, s.PicSizeInMbs, Advanced(s, addr, k - 1))

\* A step of the loop from its top, and one from `if moreDataFlag:`.
LoopTopStep ==
    slice.pc = "decoding" /\ slice'.pc # "failed" =>
        /\ slice.moreDataFlag
        /\ slice'.pc = "macroblock"
        /\ slice'.passed = slice.passed /\ slice'.macroblocks = slice.macroblocks
        /\ IF slice.slice_type_clear \in {"P", "SP", "B"}
           THEN /\ slice'.mb_skip_run >= 0
                /\ slice'.CurrMbAddr = Advanced(slice, slice.CurrMbAddr, slice'.mb_skip_run)
                /\ slice'.mb_skip_run = 0 => slice'.moreDataFlag = slice.moreDataFlag
           ELSE /\ slice'.CurrMbAddr = slice.CurrMbAddr
                /\ slice'.moreDataFlag = slice.moreDataFlag

LoopMacroblockStep ==
    slice.pc = "macroblock" =>
        /\ IF slice.moreDataFlag
           THEN slice'.passed = Append(slice.passed, slice.CurrMbAddr)
           ELSE slice'.passed = slice.passed /\ slice'.macroblocks = slice.macroblocks
        /\ slice'.pc \in {"decoding", "done", "failed"}
        /\ slice'.pc # "failed" =>
               /\ slice'.CurrMbAddr = Advanced(slice, slice.CurrMbAddr, 1)
               /\ (slice'.pc = "decoding") = slice'.moreDataFlag
               /\ (slice'.pc = "done") = ~slice'.moreDataFlag

\* C21: macroblock_layer is invoked only while moreDataFlag is true; in P, SP and
\* B slices the invocation is preceded in the same iteration by reading
\* mb_skip_run and advancing CurrMbAddr mb_skip_run times via NextMbAddress, with
\* moreDataFlag refreshed when mb_skip_run > 0; after every iteration
\* moreDataFlag = more_rbsp_data() and CurrMbAddr = NextMbAddress(CurrMbAddr); the
\* loop is left exactly when moreDataFlag becomes false, and no macroblock is
\* decoded afterwards.
C21_LoopOrdering ==
    [][/\ LoopTopStep
       /\ LoopMacroblockStep
       /\ slice.pc \in {"done", "failed"} => slice' = slice]_vars

\* An iteration of a P slice has skipped a macroblock, decoded the next one and
\* goes on.
C21_Witness ==
    /\ slice.pc = "decoding" /\ slice.slice_type_clear = "P"
    /\ slice.mb_skip_run > 0 /\ slice.passed # <<>>
    /\ slice.CurrMbAddr > slice.passed[Len(slice.passed)]

\* A P slice has ended on a skip run, without a macroblock after it.
C21_WitnessSkipEnd ==
    /\ slice.pc = "done" /\ slice.mb_skip_run > 0 /\ slice.passed = <<>>

\* C25: within one slice the CurrMbAddr values passed to macroblock_layer are
\* strictly increasing and all lie in
\* [first_mb_in_slice * (1 + MbaffFrameFlag), PicSizeInMbs), so no address is
\* decoded twice and no record of the macroblock map is overwritten.
C25_AddressesInPicture ==
    slice.pc \in {"decoding", "macroblock", "done", "failed"} =>
        /\ \A j \in 1..(Len(slice.passed) - 1) : slice.passed[j] < slice.passed[j + 1]
        /\ \A j \in 1..Len(slice.passed) :
               /\ slice.first_mb_in_slice * (1 + slice.MbaffFrameFlag) <= slice.passed[j]
               /\ slice.passed[j] < slice.PicSizeInMbs

\* The part of C25 that holds: the addresses are strictly increasing and not
\* below the slice's first address, so none is passed twice.
AddressesIncreasing ==
    slice.pc \in {"decoding", "macroblock", "done", "failed"} =>
        /\ \A j \in 1..(Len(slice.passed) - 1) : slice.passed[j] < slice.passed[j + 1]
        /\ \A j \in 1..Len(slice.passed) :
               slice.first_mb_in_slice * (1 + slice.MbaffFrameFlag) <= slice.passed[j]

\* mapUnitToSliceGroupMap of the slice, as setup_MbToSliceGroupMap builds it.
MapUnitsOf(s) ==
    MapUnitLoop([k \in 1..s.PicSizeInMapUnits |-> 0], s.PicSizeInMapUnits,
                s.pps.num_slice_groups_minus1, s.pps.run_length_minus1, 0)

\* Whether setup_MbToSliceGroupMap has been called on the slice.
SetupCalled ==
    /\ slice.pc \notin {"idle", "constructed", "header_parsed"}
    /\ slice.raised_in # "slice_header"

\* C28: after setup_MbToSliceGroupMap, MbToSliceGroupMap holds one entry for every
\* macroblock address 0..PicSizeInMbs-1 (mapUnitToSliceGroupMap[i] for
\* frame_mbs_only or field pictures, mapUnitToSliceGroupMap[i div 2] for MBAFF
\* frames), each a slice group in 0..num_slice_groups_minus1; no address below
\* PicSizeInMbs falls outside the map, also when PicSizeInMbs = 2 * PicSizeInMapUnits.
C28_MapCoversPicture ==
    (SetupCalled /\ slice.pps.slice_group_map_type = 0
        /\ (slice.sps.frame_mbs_only_flag = 1 \/ slice.field_pic_flag = 1
            \/ slice.MbaffFrameFlag = 1)) =>
        /\ slice.raised_in # "setup_MbToSliceGroupMap"
        /\ Len(slice.MbToSliceGroupMap) >= slice.PicSizeInMbs
        /\ \A i \in 0..(slice.PicSizeInMbs - 1) :
               /\ slice.MbToSliceGroupMap[i + 1] \in 0..slice.pps.num_slice_groups_minus1
               /\ slice.MbToSliceGroupMap[i + 1] =
                      IF slice.sps.frame_mbs_only_flag = 1 \/ slice.field_pic_flag = 1
                      THEN MapUnitsOf(slice)[i + 1]
                      ELSE MapUnitsOf(slice)[i \div 2 + 1]

\* C28 for frame_mbs_only and field pictures, where PicSizeInMbs = PicSizeInMapUnits.
MapCoversFramePicture ==
    (SetupCalled /\ slice.pps.slice_group_map_type = 0
        /\ (slice.sps.frame_mbs_only_flag = 1 \/ slice.field_pic_flag = 1)) =>
        /\ slice.raised_in # "setup_MbToSliceGroupMap"
        /\ Len(slice.MbToSliceGroupMap) = slice.PicSizeInMbs
        /\ \A i \in 0..(slice.PicSizeInMbs - 1) :
               /\ slice.MbToSliceGroupMap[i + 1] \in 0..slice.pps.num_slice_groups_minus1
               /\ slice.MbToSliceGroupMap[i + 1] = MapUnitsOf(slice)[i + 1]

(***************************************************************************)
(* h26x_extractor/nalutypes.py: VCLSlice.residual_block_cavlc, the level   *)
(* information (9.2.2): the loop over the TotalCoeff levels of a block,    *)
(* with the syntax elements it reads as inputs.                            *)
(***************************************************************************)

\* The bounds of the level runs: the coefficients of the block, the values of
\* level_prefix, and the level_suffix values tried for each suffix size.
MaxLevelCoeff == 2

MaxLevelPrefix == 14

MaxLevelSuffix == 3

Abs(x) == IF x < 0 THEN -x ELSE x

\* get_suffixLength(l_p, s_l): the size of level_suffix.
get_suffixLength(l_p, s_l) ==
    IF l_p = 14 /\ s_l = 0 THEN 4
    ELSE IF l_p >= 15 THEN l_p - 3
    ELSE s_l

\* levelVal[i] of a level that is not a trailing one, from its level_prefix and
\* level_suffix.
level_value(level_prefix, level_suffix, suffixLength, i, trailingOnes) ==
    LET c0 == Min(15, level_prefix) * Pow2(suffixLength)
        c1 == IF suffixLength > 0 \/ level_prefix >= 14 THEN c0 + level_suffix ELSE c0
        c2 == IF level_prefix >= 15 /\ suffixLength = 0 THEN c1 + 15 ELSE c1
        c3 == IF level_prefix >= 16 THEN c2 + Pow2(level_prefix - 3) - 4096 ELSE c2
        levelCode == IF i = trailingOnes /\ trailingOnes < 3 THEN c3 + 2 ELSE c3
    IN  IF levelCode % 2 = 0 THEN (levelCode + 2) \div 2
        ELSE -((levelCode + 1) \div 2)

\* suffixLength raised for as long as the level exceeds its threshold.
RECURSIVE RaiseWhile(_, _)
RaiseWhile(suffixLength, levelVal) ==
    IF Abs(levelVal) > 3 * Pow2(suffixLength - 1) /\ suffixLength < 6
    THEN RaiseWhile(suffixLength + 1, levelVal)
    ELSE suffixLength

next_suffixLength_While(suffixLength, levelVal) ==
    RaiseWhile(IF suffixLength = 0 THEN 1 ELSE suffixLength, levelVal)

\* if suffixLength == 0: suffixLength = 1
\* if abs(levelVal[i]) > (3 << (suffixLength - 1)) and suffixLength < 6: suffixLength += 1
next_suffixLength(suffixLength, levelVal) ==
    LET s1 == IF suffixLength = 0 THEN 1 ELSE suffixLength
    IN  IF Abs(levelVal) > 3 * Pow2(s1 - 1) /\ s1 < 6 THEN s1 + 1 ELSE s1

OthersOfLevel == <<codec, crypter, cav, slice, ncv, mbrec, reader>>

\* residual_block_cavlc after ce1: totalCoeff > 0 and trailingOnes are decoded,
\* levelVal = [0] * totalCoeff, suffixLength is 1 for more than 10 coefficients
\* with fewer than 3 trailing ones and 0 otherwise.
InitLevel ==
    /\ \E totalCoeff \in 1..MaxLevelCoeff :
           \E trailingOnes \in 0..Min(totalCoeff, 3) :
               resid = [pc |-> "levels", totalCoeff |-> totalCoeff,
                        trailingOnes |-> trailingOnes, i |-> 0,
                        levelVal |-> [k \in 1..totalCoeff |-> 0],
                        suffixLength |-> IF totalCoeff > 10 /\ trailingOnes < 3
                                         THEN 1 ELSE 0,
                        suffixLengthBefore |-> 0]
    /\ codec = Idle /\ crypter = Idle /\ cav = Idle
    /\ slice = Idle /\ ncv = Idle /\ mbrec = Idle /\ reader = Idle

\* One turn of for i in range(totalCoeff); suffixLengthBefore keeps the
\* suffixLength the turn began with.
ParseLevel ==
    /\ resid.pc = "levels"
    /\ resid.i < resid.totalCoeff
    /\ IF resid.i < resid.trailingOnes
       THEN \E trailing_ones_sign_flag \in {0, 1} :
                resid' = [resid EXCEPT
                            !.levelVal[resid.i + 1] = 1 - 2 * trailing_ones_sign_flag,
                            !.suffixLengthBefore = resid.suffixLength,
                            !.i = resid.i + 1]
       ELSE \E level_prefix \in 0..MaxLevelPrefix :
                \E level_suffix \in
                       0..Min(MaxLevelSuffix,
                              Pow2(get_suffixLength(level_prefix, resid.suffixLength)) - 1) :
                    LET val == level_value(level_prefix, level_suffix, resid.suffixLength,
                                           resid.i, resid.trailingOnes)
                    IN  resid' = [resid EXCEPT
                                    !.levelVal[resid.i + 1] = val,
                                    !.suffixLengthBefore = resid.suffixLength,
                                    !.suffixLength = next_suffixLength(resid.suffixLength, val),
                                    !.i = resid.i + 1]
    /\ UNCHANGED OthersOfLevel

\* The loop has ended.
LevelsParsed ==
    /\ resid.pc = "levels"
    /\ resid.i >= resid.totalCoeff
    /\ resid' = [resid EXCEPT !.pc = "levels_done"]
    /\ UNCHANGED OthersOfLevel

NextLevel == ParseLevel \/ LevelsParsed

SpecLevel == InitLevel /\ [][NextLevel]_vars

\* Whether the level decoded last was not a trailing one.
LastLevelCoded ==
    /\ resid.pc \in {"levels", "levels_done"}
    /\ resid.i > resid.trailingOnes

\* C22 as stated: after each level that is not a trailing one, suffixLength is set
\* to 1 if it was 0 and is then incremented while
\* |levelVal[i]| > (3 << (suffixLength - 1)) and suffixLength < 6.
C22_SuffixLengthWhile ==
    LastLevelCoded =>
        resid.suffixLength =
            RaiseWhile(IF resid.suffixLengthBefore = 0 THEN 1 ELSE resid.suffixLengthBefore,
                       resid.levelVal[resid.i])

\* C22 amended: after each level that is not a trailing one, suffixLength is set
\* to 1 if it was 0 and is then incremented once, by one, if
\* |levelVal[i]| > (3 << (suffixLength - 1)) and suffixLength < 6; a trailing one
\* leaves it as it is.
C22_SuffixLengthOnce ==
    /\ LastLevelCoded =>
           LET s1 == IF resid.suffixLengthBefore = 0 THEN 1 ELSE resid.suffixLengthBefore
               big == Abs(resid.levelVal[resid.i]) > 3 * Pow2(s1 - 1) /\ s1 < 6
           IN  resid.suffixLength = IF big THEN s1 + 1 ELSE s1
    /\ (resid.pc = "levels" /\ resid.i > 0 /\ resid.i <= resid.trailingOnes) =>
           resid.suffixLength = resid.suffixLengthBefore

\* A first level above 6 has raised suffixLength from 0 to 2, not further.
C22_Witness ==
    /\ LastLevelCoded
    /\ resid.suffixLengthBefore = 0
    /\ Abs(resid.levelVal[resid.i]) > 6
    /\ resid.suffixLength = 2

(***************************************************************************)
(* h26x_extractor/nalutypes.py: SPS.__init__ and seq_parameter_set_data,   *)
(* parsing the bits of a sequence parameter set.                           *)
(***************************************************************************)

\* The values the fields of the parameter sets tried are drawn from, and the
\* number of bits a set may lack at its end.
MaxConstraintFlags == 1

MaxSeqParameterSetId == 1

MaxSpsCut == 1

RECURSIVE Log2Floor(_)
Log2Floor(n) == IF n <= 1 THEN 0 ELSE 1 + Log2Floor(n \div 2)

\* The bits bitstring writes for a 'ue' and an 'se' value.
UeBits(v) ==
    LET k == Log2Floor(v + 1)
    IN  [j \in 1..k |-> 0] \o BitsOf(v + 1, k + 1)

SeBits(v) == UeBits(IF v > 0 THEN 2 * v - 1 ELSE -2 * v)

\* The profiles with the high-profile fields (seq_parameter_set_data).
HighProfiles == {100, 110, 122, 244, 44, 83, 86, 118, 128, 138, 139, 134, 135}

\* self.<name> = val
Put(f, name, val) == (name :> val) @@ f

\* stream.read("se"): the signed value of the Exp-Golomb code k.
SeOf(k) == IF k % 2 = 1 THEN (k + 1) \div 2 ELSE -(k \div 2)

\* self.<name> = self.s.read(...) on the parse as it stands in s; fd names the
\* field and its format, <<name, "uint", n>>, <<name, "ue", 0>> or
\* <<name, "se", 0>>.
ReadField(stream, s, fd) ==
    IF ~s.ok THEN s
    ELSE IF fd[2] = "uint"
    THEN IF s.pos + fd[3] > Len(stream)
         THEN [s EXCEPT !.ok = FALSE, !.error = "ReadError"]
         ELSE [s EXCEPT !.pos = @ + fd[3],
                        !.f = Put(@, fd[1], UintOf(Slice(stream, s.pos, s.pos + fd[3])))]
    ELSE LET r == read_ue(stream, s.pos)
         IN  IF ~r.ok THEN [s EXCEPT !.ok = FALSE, !.error = r.error]
             ELSE [s EXCEPT !.pos = r.pos,
                            !.f = Put(@, fd[1], IF fd[2] = "se" THEN SeOf(r.value)
                                                ELSE r.value)]

\* The reads of fds, one after the other; the parse so far, st, is taken as a
\* value.
RECURSIVE ReadFields(_, _, _)
ReadFields(stream, st, fds) ==
    IF fds = <<>> THEN st
    ELSE CHOOSE r \in {ReadFields(stream, ReadField(stream, s, Head(fds)), Tail(fds)) :
                       s \in {st}} : TRUE

\* for i in range(n): self.offset_for_ref_frame.append(self.s.read("se"))
RECURSIVE RdOffsets(_, _, _)
RdOffsets(stream, st, n) ==
    IF n <= 0 THEN st
    ELSE CHOOSE r \in {IF ~s.ok THEN s
                       ELSE LET e == read_ue(stream, s.pos)
                            IN  IF ~e.ok THEN [s EXCEPT !.ok = FALSE, !.error = e.error]
                                ELSE RdOffsets(stream,
                                               [s EXCEPT !.pos = e.pos,
                                                         !.f.offset_for_ref_frame =
                                                             Append(@, SeOf(e.value))],
                                               n - 1) :
                       s \in {st}} : TRUE

\* seq_parameter_set_data from profile_idc to seq_parameter_set_id.
sps_profile(stream, st) ==
    ReadFields(stream, st,
               <<<<"profile_idc", "uint", 8>>,
                 <<"constraint_set0_flag", "uint", 1>>, <<"constraint_set1_flag", "uint", 1>>,
                 <<"constraint_set2_flag", "uint", 1>>, <<"constraint_set3_flag", "uint", 1>>,
                 <<"constraint_set4_flag", "uint", 1>>, <<"constraint_set5_flag", "uint", 1>>,
                 <<"reserved_zero_2bits", "uint", 2>>, <<"level_idc", "uint", 8>>,
                 <<"seq_parameter_set_id", "ue", 0>>>>)

\* seq_parameter_set_data: if self.profile_idc in [...], the fields of the high
\* profiles; a scaling matrix raises NotImplementedError.
sps_high_profile(stream, st) ==
    IF st.f.profile_idc \notin HighProfiles THEN st
    ELSE LET h1 == ReadFields(stream, st, <<<<"chroma_format_idc", "ue", 0>>>>)
             h2 == ReadFields(stream, h1,
                              (IF h1.ok /\ h1.f.chroma_format_idc = 3
                               THEN <<<<"separate_colour_plane_flag", "uint", 1>>>>
                               ELSE <<>>)
                              \o <<<<"bit_depth_luma_minus8", "ue", 0>>,
                                   <<"bit_depth_chroma_minus8", "ue", 0>>,
                                   <<"qpprime_y_zero_transform_bypass_flag", "uint", 1>>,
                                   <<"seq_scaling_matrix_present_flag", "uint", 1>>>>)
         IN  IF h2.ok /\ h2.f.seq_scaling_matrix_present_flag # 0
             THEN [h2 EXCEPT !.ok = FALSE, !.error = "NotImplementedError"]
             ELSE h2

\* seq_parameter_set_data from log2_max_frame_num_minus4 to the fields of the
\* picture order count type.
sps_pic_order_cnt(stream, st) ==
    LET p1 == ReadFields(stream, st, <<<<"log2_max_frame_num_minus4", "ue", 0>>,
                                       <<"pic_order_cnt_type", "ue", 0>>>>)
        p2 == ReadFields(stream, p1,
                         <<<<"delta_pic_order_always_zero_flag", "uint", 1>>,
                           <<"offset_for_non_ref_pic", "se", 0>>,
                           <<"offset_for_top_to_bottom_filed", "se", 0>>,
                           <<"num_ref_frames_in_pic_order_cnt_cycle", "ue", 0>>>>)
    IN  IF ~p1.ok THEN p1
        ELSE IF p1.f.pic_order_cnt_type = 0
        THEN ReadFields(stream, p1, <<<<"log2_max_pic_order_cnt_lsb_minus4", "ue", 0>>>>)
        ELSE IF p1.f.pic_order_cnt_type = 1
        THEN IF ~p2.ok THEN p2
             ELSE RdOffsets(stream, p2, p2.f.num_ref_frames_in_pic_order_cnt_cycle)
        ELSE p1

\* seq_parameter_set_data from num_ref_frames to vui_parameters_present_flag.
sps_frame(stream, st) ==
    LET f1 == ReadFields(stream, st, <<<<"num_ref_frames", "ue", 0>>,
                                       <<"gaps_in_frame_num_value_allowed_flag", "uint", 1>>,
                                       <<"pic_width_in_mbs_minus1", "ue", 0>>,
                                       <<"pic_height_in_map_units_minus1", "ue", 0>>,
                                       <<"frame_mbs_only_flag", "uint", 1>>>>)
        f2 == ReadFields(stream, f1,
                         (IF f1.ok /\ f1.f.frame_mbs_only_flag = 0
                          THEN <<<<"mb_adaptive_frame_field_flag", "uint", 1>>>>
                          ELSE <<>>)
                         \o <<<<"direct_8x8_inference_flag", "uint", 1>>,
                              <<"frame_cropping_flag", "uint", 1>>>>)
    IN  ReadFields(stream, f2,
                   (IF f2.ok /\ f2.f.frame_cropping_flag # 0
                    THEN <<<<"frame_crop_left_offset", "ue", 0>>,
                           <<"frame_crop_right_offset", "ue", 0>>,
                           <<"frame_crop_top_offset", "ue", 0>>,
                           <<"frame_crop_bottom_offset", "ue", 0>>>>
                    ELSE <<>>)
                   \o <<<<"vui_parameters_present_flag", "uint", 1>>>>)

\* The bits of a sequence parameter set with the given fields, the others 0.
SpsBits(profile_idc, flags, reserved_zero_2bits, seq_parameter_set_id, chroma_format_idc,
        seq_scaling_matrix_present_flag, pic_order_cnt_type, frame_mbs_only_flag,
        frame_cropping_flag) ==
    BitsOf(profile_idc, 8) \o BitsOf(flags, 6) \o BitsOf(reserved_zero_2bits, 2)
    \o BitsOf(30, 8) \o UeBits(seq_parameter_set_id)
    \o (IF profile_idc \in HighProfiles
        THEN UeBits(chroma_format_idc) \o (IF chroma_format_idc = 3 THEN <<0>> ELSE <<>>)
             \o UeBits(0) \o UeBits(0) \o <<0>> \o <<seq_scaling_matrix_present_flag>>
        ELSE <<>>)
    \o UeBits(0) \o UeBits(pic_order_cnt_type)
    \o (IF pic_order_cnt_type = 0 THEN UeBits(0)
        ELSE IF pic_order_cnt_type = 1
             THEN <<1>> \o SeBits(0) \o SeBits(-1) \o UeBits(1) \o SeBits(1)
             ELSE <<>>)
    \o UeBits(1) \o <<0>> \o UeBits(1) \o UeBits(1)
    \o <<frame_mbs_only_flag>> \o (IF frame_mbs_only_flag = 0 THEN <<1>> ELSE <<>>)
    \o <<1>> \o <<frame_cropping_flag>>
    \o (IF frame_cropping_flag = 1 THEN UeBits(0) \o UeBits(0) \o UeBits(0) \o UeBits(2)
        ELSE <<>>)
    \o <<0>>

OthersOfSps == <<codec, crypter, cav, slice, ncv, resid, mbrec>>

\* SPS(rbsp_bytes, verbose) is called on the payload of a sequence parameter set,
\* whole or cut short; __init__ has set the fields that have defaults.
InitSps ==
    /\ \E profile_idc \in {66, 100}, flags \in 0..MaxConstraintFlags,
          reserved_zero_2bits \in 0..3,
          seq_parameter_set_id \in 0..MaxSeqParameterSetId,
          chroma_format_idc \in {1, 3}, seq_scaling_matrix_present_flag \in Bit,
          pic_order_cnt_type \in 0..2, frame_mbs_only_flag \in Bit,
          frame_cropping_flag \in Bit, cut \in 0..MaxSpsCut :
           \E bits \in {SpsBits(profile_idc, flags, reserved_zero_2bits,
                                seq_parameter_set_id, chroma_format_idc,
                                seq_scaling_matrix_present_flag, pic_order_cnt_type,
                                frame_mbs_only_flag, frame_cropping_flag)} :
               reader = [pc |-> "sps", stream |-> SubSeq(bits, 1, Len(bits) - cut),
                         pos |-> 0, error |-> "",
                         fields |-> [chroma_format_idc |-> 1,
                                     separate_colour_plane_flag |-> 0,
                                     bit_depth_luma_minus8 |-> 0,
                                     bit_depth_chroma_minus8 |-> 0,
                                     offset_for_ref_frame |-> <<>>]]
    /\ codec = Idle /\ crypter = Idle /\ cav = Idle /\ slice = Idle
    /\ ncv = Idle /\ resid = Idle /\ mbrec = Idle

\* The parse of the SPS as it stands, and the SPS after the part of
\* seq_parameter_set_data that gave r: an exception leaves the constructor.
SpsParse == [ok |-> TRUE, error |-> "", pos |-> reader.pos, f |-> reader.fields]

SpsAfter(r, pc) ==
    IF r.ok
    THEN [reader EXCEPT !.pc = pc, !.pos = r.pos, !.fields = r.f]
    ELSE [reader EXCEPT !.pc = "sps_raised", !.pos = r.pos, !.error = r.error]

\* seq_parameter_set_data: profile_idc to seq_parameter_set_id
SpsProfile ==
    /\ reader.pc = "sps"
    /\ reader' = SpsAfter(sps_profile(reader.stream, SpsParse), "sps_high_profile")
    /\ UNCHANGED OthersOfSps

\* seq_parameter_set_data: the fields of the high profiles
SpsHighProfile ==
    /\ reader.pc = "sps_high_profile"
    /\ reader' = SpsAfter(sps_high_profile(reader.stream, SpsParse), "sps_pic_order_cnt")
    /\ UNCHANGED OthersOfSps

\* seq_parameter_set_data: log2_max_frame_num_minus4 and the picture order count
SpsPicOrderCnt ==
    /\ reader.pc = "sps_pic_order_cnt"
    /\ reader' = SpsAfter(sps_pic_order_cnt(reader.stream, SpsParse), "sps_frame")
    /\ UNCHANGED OthersOfSps

\* seq_parameter_set_data: num_ref_frames to vui_parameters_present_flag, after
\* which SPS.__init__ returns the object.
SpsFrame ==
    /\ reader.pc = "sps_frame"
    /\ reader' = SpsAfter(sps_frame(reader.stream, SpsParse), "sps_returned")
    /\ UNCHANGED OthersOfSps

NextSps == SpsProfile \/ SpsHighProfile \/ SpsPicOrderCnt \/ SpsFrame

SpecSps == InitSps /\ [][NextSps]_vars

\* The two reserved bits of the payload, bits 14 and 15.
ReservedBitsOf(stream) == UintOf(Slice(stream, 14, 16))

\* C23: parsing a sequence parameter set whose reserved_zero_2bits is not 0 fails
\* with the invalid-value error, and no SPS object with reserved_zero_2bits # 0 is
\* returned.
C23_ReservedZeroChecked ==
    /\ reader.pc = "sps_returned" => reader.fields.reserved_zero_2bits = 0
    /\ (reader.pc = "sps_raised" /\ ReservedBitsOf(reader.stream) # 0) =>
           reader.error = "ValueError"

\* A returned SPS object holds the reserved bits as they stand in the payload.
SpsKeepsReservedBits ==
    reader.pc = "sps_returned" =>
        reader.fields.reserved_zero_2bits = ReservedBitsOf(reader.stream)

\* An SPS object with reserved_zero_2bits = 3 has been returned.
SpsReturnedWithReservedBits ==
    /\ reader.pc = "sps_returned"
    /\ reader.fields.reserved_zero_2bits = 3

(***************************************************************************)
(* h26x_extractor/nalutypes.py: the loops of a slice parse on the bits of  *)
(* the payload: ref_pic_list_modification, dec_ref_pic_marking, the        *)
(* slice-group map of setup_MbToSliceGroupMap and the macroblock loop of   *)
(* slice_data.  The stream is the payload from ref_pic_list_modification   *)
(* on; the PPS has no weighted prediction, no deblocking control, CAVLC    *)
(* and map type 0, and the SPS has frame_mbs_only_flag set.                *)
(***************************************************************************)

MaxTermBits == 6

MaxTermMapUnits == 2

\* i += run_length_minus1[iGroup] + 1, without the step of one
map_unit_step_Stay(i, run_length_minus1, iGroup) == i + run_length_minus1[iGroup + 1]

\* i += run_length_minus1[iGroup] + 1
map_unit_step(i, run_length_minus1, iGroup) == i + run_length_minus1[iGroup + 1] + 1

\* A turn of `while True` in ref_pic_list_modification: modification_of_pic_nums_idc,
\* the value that goes with 0, 1 and 2, and the break at 3.
ref_pic_list_turn(stream, pos) ==
    LET a == read_ue(stream, pos)
        b == IF a.ok /\ a.value \in {0, 1, 2} THEN read_ue(stream, a.pos) ELSE a
    IN  [ok |-> b.ok, error |-> b.error, pos |-> b.pos, break |-> a.ok /\ a.value = 3]

\* A turn of `while True` in dec_ref_pic_marking: memory_management_control_operation,
\* the value that goes with 0, 1, 2, 3, 4 and 6, and the break at 0.
marking_turn(stream, pos) ==
    LET a == read_ue(stream, pos)
        b == IF a.ok /\ a.value \in {0, 1, 2, 3, 4, 6} THEN read_ue(stream, a.pos) ELSE a
    IN  [ok |-> b.ok, error |-> b.error, pos |-> b.pos, break |-> a.ok /\ a.value = 0]

\* The slice left by an exception, and moved on to the next part of the parse.
TermRaise(r, error) == [r EXCEPT !.pc = "failed", !.error = error]

TermGoto(r, pc, pos) == [r EXCEPT !.pc = pc, !.pos = pos]

OthersOfTerm == <<codec, crypter, cav, slice, ncv, resid, mbrec>>

\* slice_header has come to self.ref_pic_list_modification(): slice_type,
\* nal_unit_type and nal_ref_idc are read, the rest of the payload follows.  The
\* geometry of the parameter sets is filled in where setup_slice_data reads it.
InitTerm ==
    /\ \E stream \in SeqsUpTo(Bit, MaxTermBits), slice_type \in {0, 1, 2},
          nal \in {<<5, 1>>, <<1, 1>>, <<1, 0>>} :
           reader = [pc |-> "l0_flag", stream |-> stream, pos |-> 0,
                     slice_type |-> slice_type,
                     nal_unit_type |-> nal[1], nal_ref_idc |-> nal[2],
                     PicSizeInMapUnits |-> 0, PicSizeInMbs |-> 0,
                     num_slice_groups_minus1 |-> 0, run_length_minus1 |-> <<>>,
                     i |-> 0, iGroup |-> 0,
                     mapUnitToSliceGroupMap |-> <<>>, MbToSliceGroupMap |-> <<>>,
                     CurrMbAddr |-> 0, moreDataFlag |-> TRUE, error |-> ""]
    /\ codec = Idle /\ crypter = Idle /\ cav = Idle /\ slice = Idle
    /\ ncv = Idle /\ resid = Idle /\ mbrec = Idle

\* ref_pic_list_modification: the test of slice_type and the flag of list 0, and
\* then of list 1.
RefPicListFlag ==
    /\ reader.pc \in {"l0_flag", "l1_flag"}
    /\ LET applies == IF reader.pc = "l0_flag"
                      THEN reader.slice_type % 5 # 2 /\ reader.slice_type % 5 # 4
                      ELSE reader.slice_type % 5 = 1
           loop == IF reader.pc = "l0_flag" THEN "l0_loop" ELSE "l1_loop"
           after == IF reader.pc = "l0_flag" THEN "l1_flag" ELSE "marking"
           flag == read_uint1(reader.stream, reader.pos)
       IN  reader' = IF ~applies THEN TermGoto(reader, after, reader.pos)
                     ELSE IF ~flag.ok THEN TermRaise(reader, flag.error)
                     ELSE IF flag.value = 1 THEN TermGoto(reader, loop, flag.pos)
                     ELSE TermGoto(reader, after, flag.pos)
    /\ UNCHANGED OthersOfTerm

\* ref_pic_list_modification: a turn of one of its two loops.
RefPicListTurn ==
    /\ reader.pc \in {"l0_loop", "l1_loop"}
    /\ LET t == ref_pic_list_turn(reader.stream, reader.pos)
           after == IF reader.pc = "l0_loop" THEN "l1_flag" ELSE "marking"
       IN  reader' = IF ~t.ok THEN TermRaise(reader, t.error)
                     ELSE IF t.break THEN TermGoto(reader, after, t.pos)
                     ELSE TermGoto(reader, reader.pc, t.pos)
    /\ UNCHANGED OthersOfTerm

\* if self.nal_ref_idc != 0: self.dec_ref_pic_marking(), up to its loop.
DecRefPicMarking ==
    /\ reader.pc = "marking"
    /\ LET f1 == read_uint1(reader.stream, reader.pos)
           f2 == read_uint1(reader.stream, f1.pos)
       IN  reader' =
               IF reader.nal_ref_idc = 0 THEN TermGoto(reader, "header_rest", reader.pos)
               ELSE IF ~f1.ok THEN TermRaise(reader, f1.error)
               ELSE IF reader.nal_unit_type = 5
               THEN IF ~f2.ok THEN TermRaise(reader, f2.error)
                    ELSE TermGoto(reader, "header_rest", f2.pos)
               ELSE IF f1.value = 1 THEN TermGoto(reader, "marking_loop", f1.pos)
               ELSE TermGoto(reader, "header_rest", f1.pos)
    /\ UNCHANGED OthersOfTerm

\* dec_ref_pic_marking: a turn of its loop.
MarkingTurn ==
    /\ reader.pc = "marking_loop"
    /\ LET t == marking_turn(reader.stream, reader.pos)
       IN  reader' = IF ~t.ok THEN TermRaise(reader, t.error)
                     ELSE IF t.break THEN TermGoto(reader, "header_rest", t.pos)
                     ELSE TermGoto(reader, "marking_loop", t.pos)
    /\ UNCHANGED OthersOfTerm

\* The rest of slice_header, slice_qp_delta, and slice_data up to the loop of
\* setup_MbToSliceGroupMap, which takes the picture size from the SPS and the
\* slice groups and their runs from the PPS.
HeaderRest ==
    /\ reader.pc = "header_rest"
    /\ LET q == read_ue(reader.stream, reader.pos)
       IN  IF ~q.ok THEN reader' = TermRaise(reader, q.error)
           ELSE \E PicSizeInMapUnits \in 1..MaxTermMapUnits, g \in 0..1 :
                    \E rl \in [1..(g + 1) -> 0..1] :
                        reader' = [reader EXCEPT
                                     !.pc = "map_loop", !.pos = q.pos,
                                     !.PicSizeInMapUnits = PicSizeInMapUnits,
                                     !.PicSizeInMbs = PicSizeInMapUnits,
                                     !.num_slice_groups_minus1 = g,
                                     !.run_length_minus1 = rl,
                                     !.i = 0, !.iGroup = 0,
                                     !.mapUnitToSliceGroupMap =
                                         [k \in 1..PicSizeInMapUnits |-> 0]]
    /\ UNCHANGED OthersOfTerm

\* setup_MbToSliceGroupMap: one run of the slice-group loops, from the tests
\* that lead to it to the tests that follow it; after the last one the map is
\* copied and slice_data comes to its while loop.
MapUnitTurn ==
    /\ reader.pc = "map_loop"
    /\ LET iGroup == IF reader.iGroup <= reader.num_slice_groups_minus1
                     THEN reader.iGroup ELSE 0
           map == FillRun(reader.mapUnitToSliceGroupMap, reader.PicSizeInMapUnits,
                          reader.run_length_minus1, reader.i, iGroup, 0)
           i == map_unit_step(reader.i, reader.run_length_minus1, iGroup)
       IN  reader' = IF i >= reader.PicSizeInMapUnits
                     THEN [reader EXCEPT !.pc = "decoding", !.i = i, !.iGroup = iGroup + 1,
                                         !.mapUnitToSliceGroupMap = map,
                                         !.MbToSliceGroupMap = map,
                                         !.CurrMbAddr = 0, !.moreDataFlag = TRUE]
                     ELSE [reader EXCEPT !.i = i, !.iGroup = iGroup + 1,
                                         !.mapUnitToSliceGroupMap = map]
    /\ UNCHANGED OthersOfTerm

\* slice_data: a turn of `while moreDataFlag`.  macroblock_layer reads mb_type
\* and then raises or returns with the cursor where its reads have left it.
SliceDataTurn ==
    /\ reader.pc = "decoding"
    /\ LET skips == reader.slice_type % 5 # 2 /\ reader.slice_type % 5 # 4
           run == read_ue(reader.stream, reader.pos)
           mb_skip_run == IF skips /\ run.ok THEN run.value ELSE 0
           addr == SkipRun(reader, reader.CurrMbAddr, mb_skip_run)
           pos1 == IF skips THEN run.pos ELSE reader.pos
           more1 == more_rbsp_data(reader.stream, pos1)
           moreDataFlag == IF mb_skip_run > 0 THEN more1.value ELSE reader.moreDataFlag
           mb_type == read_ue(reader.stream, pos1)
       IN  IF skips /\ ~run.ok THEN reader' = TermRaise(reader, run.error)
           ELSE IF mb_skip_run > 0 /\ ~more1.ok THEN reader' = TermRaise(reader, more1.error)
           ELSE IF moreDataFlag /\ ~mb_type.ok THEN reader' = TermRaise(reader, mb_type.error)
           ELSE \E raised \in BOOLEAN :
                    \E pos2 \in (IF moreDataFlag THEN mb_type.pos ELSE pos1)
                                ..(IF moreDataFlag THEN Len(reader.stream) ELSE pos1) :
                        LET more2 == more_rbsp_data(reader.stream, pos2)
                        IN  reader' =
                                IF moreDataFlag /\ raised
                                THEN TermRaise([reader EXCEPT !.pos = pos2], "Exception")
                                ELSE IF ~more2.ok
                                THEN TermRaise([reader EXCEPT !.pos = pos2], more2.error)
                                ELSE [reader EXCEPT
                                        !.pc = IF more2.value THEN "decoding" ELSE "done",
                                        !.pos = pos2,
                                        !.moreDataFlag = more2.value,
                                        !.CurrMbAddr =
                                            NextMbAddress(reader.MbToSliceGroupMap,
                                                          reader.PicSizeInMbs, addr)]
    /\ UNCHANGED OthersOfTerm

NextTerm ==
    \/ RefPicListFlag
    \/ RefPicListTurn
    \/ DecRefPicMarking
    \/ MarkingTurn
    \/ HeaderRest
    \/ MapUnitTurn
    \/ SliceDataTurn

SpecTerm == InitTerm /\ [][NextTerm]_vars

\* The parse is sequential: it takes its next step as long as it has one.
SpecTermFair == SpecTerm /\ WF_vars(NextTerm)

\* The slice parse is over, normally or with an error.
Terminated == reader.pc \in {"done", "failed"}

\* A turn of a loop that reads the payload ends the parse with an error or
\* leaves the cursor further on; a turn of the slice-group loop leaves the unit
\* index further on; the cursor never moves backwards.
TurnAdvances ==
    /\ reader.pc \in {"l0_loop", "l1_loop", "marking_loop", "decoding"} =>
           reader'.pc = "failed" \/ reader'.pos >= reader.pos + 1
    /\ reader.pc = "map_loop" => reader'.i >= reader.i + 1
    /\ reader'.pos >= reader.pos

\* C24: the slice parse terminates on every finite payload, normally or with an
\* error: each turn of the macroblock loop, of the ref_pic_list_modification
\* loops and of the dec_ref_pic_marking loop consumes at least one bit, the
\* cursor never moves backwards, and the slice-group-map loop advances its unit
\* index by at least one per step.
C24_Terminates == [][TurnAdvances]_vars /\ <>Terminated

\* The macroblock loop has run to its normal end after the loops before it.
C24_Witness ==
    /\ reader.pc = "done"
    /\ "i" \in DOMAIN reader
    /\ reader.i >= reader.PicSizeInMapUnits
    /\ reader.PicSizeInMapUnits > 1
    /\ reader.pos > 2

(***************************************************************************)
(* h26x_extractor/nalutypes.py: the neighbours of a 4x4 block (6.4.9,      *)
(* 6.4.11.4, 6.4.12) and the macroblock objects get_nc looks up for them,  *)
(* in a slice of a frame without MBAFF and with one slice group.           *)
(***************************************************************************)

MaxNbrWidth == 2

MaxNbrAddr == 3

MaxNbrSkipRun == 2

\* InverseRasterScan(a, b, c, d, e) of 5.7, imported from macroblock.py.
InverseRasterScan(a, b, c, d, e) ==
    IF e = 0 THEN (a % (d \div b)) * b ELSE (a \div (d \div b)) * c

inverse_4x4_luma_block_scanning(blkIdx) ==
    <<InverseRasterScan(blkIdx \div 4, 8, 8, 16, 0) + InverseRasterScan(blkIdx % 4, 4, 4, 8, 0),
      InverseRasterScan(blkIdx \div 4, 8, 8, 16, 1) + InverseRasterScan(blkIdx % 4, 4, 4, 8, 1)>>

\* int(2 * (yP // 4) + (xP // 4))
derive_4x4_luma_blkIdx(xP, yP) == 2 * (yP \div 4) + (xP \div 4)

\* derive_neighbour_addr.is_avail
is_avail(a, CurrMbAddr) == 0 <= a /\ a <= CurrMbAddr

\* derive_neighbour_addr(mb, addr_type): <<addr, available>>
derive_neighbour_addr(CurrMbAddr, PicWidthInMbs, addr_type) ==
    IF addr_type = "mbAddrA"
    THEN <<CurrMbAddr - 1,
           CurrMbAddr % PicWidthInMbs # 0 /\ is_avail(CurrMbAddr - 1, CurrMbAddr)>>
    ELSE IF addr_type = "mbAddrB"
    THEN <<CurrMbAddr - PicWidthInMbs, is_avail(CurrMbAddr - PicWidthInMbs, CurrMbAddr)>>
    ELSE IF addr_type = "mbAddrC"
    THEN <<CurrMbAddr - PicWidthInMbs + 1,
           (CurrMbAddr + 1) % PicWidthInMbs # 0
           /\ is_avail(CurrMbAddr - PicWidthInMbs + 1, CurrMbAddr)>>
    ELSE <<CurrMbAddr - PicWidthInMbs - 1,
           CurrMbAddr % PicWidthInMbs # 0
           /\ is_avail(CurrMbAddr - PicWidthInMbs - 1, CurrMbAddr)>>

\* derive_neighbour_location(mb, xN, yN, is_luma) with MbaffFrameFlag = 0:
\* mbAddrN (NoAddr for None) and (xW, yW).
derive_neighbour_location(CurrMbAddr, PicWidthInMbs, xN, yN, is_luma, MbWidthC, MbHeightC) ==
    LET maxW == IF is_luma THEN 16 ELSE MbWidthC
        maxH == IF is_luma THEN 16 ELSE MbHeightC
        none_ret == [ok |-> TRUE, error |-> "", mbAddrN |-> NoAddr, xW |-> 0, yW |-> 0]
        addr_type == IF xN < 0 /\ yN < 0 THEN "mbAddrD"
                     ELSE IF xN < 0 /\ 0 <= yN /\ yN < maxH THEN "mbAddrA"
                     ELSE IF maxW > xN /\ xN >= 0 /\ 0 > yN THEN "mbAddrB"
                     ELSE IF xN >= maxW /\ yN < 0 THEN "mbAddrC"
                     ELSE "ValueError"
        n == derive_neighbour_addr(CurrMbAddr, PicWidthInMbs, addr_type)
    IN  IF (xN > maxW /\ 0 <= yN /\ yN < maxH) \/ yN >= maxH THEN none_ret
        ELSE IF 0 <= xN /\ xN < maxW /\ 0 <= yN /\ yN < maxH
        THEN [ok |-> TRUE, error |-> "", mbAddrN |-> CurrMbAddr, xW |-> xN, yW |-> yN]
        ELSE IF addr_type = "ValueError"
        THEN [ok |-> FALSE, error |-> "ValueError", mbAddrN |-> NoAddr, xW |-> 0, yW |-> 0]
        ELSE IF ~n[2] THEN none_ret
        ELSE [ok |-> TRUE, error |-> "", mbAddrN |-> n[1],
              xW |-> (xN + maxW) % maxW, yW |-> (yN + maxH) % maxH]

\* neighbouring_4x4_luma.get_mb_addr_and_blk_idx(xD, yD)
luma_mb_addr_and_blk_idx(CurrMbAddr, PicWidthInMbs, blkIdx, xD, yD) ==
    LET xy == inverse_4x4_luma_block_scanning(blkIdx)
        loc == derive_neighbour_location(CurrMbAddr, PicWidthInMbs, xy[1] + xD, xy[2] + yD,
                                         TRUE, 8, 8)
    IN  [ok |-> loc.ok, error |-> loc.error, mbAddrN |-> loc.mbAddrN,
         blkN |-> IF loc.mbAddrN = NoAddr THEN 0 ELSE derive_4x4_luma_blkIdx(loc.xW, loc.yW)]

\* neighbouring_4x4_luma(mb, blkIdx)
neighbouring_4x4_luma(CurrMbAddr, PicWidthInMbs, blkIdx) ==
    [A |-> luma_mb_addr_and_blk_idx(CurrMbAddr, PicWidthInMbs, blkIdx, -1, 0),
     B |-> luma_mb_addr_and_blk_idx(CurrMbAddr, PicWidthInMbs, blkIdx, 0, -1)]

OthersOfNbr == <<codec, crypter, cav, slice, resid, mbrec, reader>>

\* slice_data has come to its loop in a P slice: self.macroblocks = {} and
\* CurrMbAddr = first_mb_in_slice.
InitNbr ==
    /\ \E PicWidthInMbs \in 1..MaxNbrWidth, first_mb_in_slice \in 0..1 :
           ncv = [pc |-> "decoding", PicWidthInMbs |-> PicWidthInMbs,
                  first_mb_in_slice |-> first_mb_in_slice,
                  CurrMbAddr |-> first_mb_in_slice,
                  macroblocks |-> <<>>, skipped |-> {},
                  blkIdx |-> 0, mbAddrA |-> NoAddr, mbAddrB |-> NoAddr, error |-> ""]
    /\ codec = Idle /\ crypter = Idle /\ cav = Idle
    /\ slice = Idle /\ resid = Idle /\ mbrec = Idle /\ reader = Idle

\* slice_data: mb_skip_run > 0 moves CurrMbAddr on; no object is made for the
\* macroblocks passed.
NbrSkipRun ==
    /\ ncv.pc = "decoding"
    /\ \E mb_skip_run \in 1..MaxNbrSkipRun :
           /\ ncv.CurrMbAddr + mb_skip_run <= MaxNbrAddr
           /\ ncv' = [ncv EXCEPT
                        !.CurrMbAddr = @ + mb_skip_run,
                        !.skipped = @ \cup (ncv.CurrMbAddr..(ncv.CurrMbAddr + mb_skip_run - 1))]
    /\ UNCHANGED OthersOfNbr

\* slice_data: macroblock_layer(CurrMbAddr) stores the object of the macroblock
\* and, decoding a luma block of it, calls get_nc, which looks up the objects
\* of the neighbours reported available.
NbrMacroblock ==
    /\ ncv.pc = "decoding"
    /\ ncv.CurrMbAddr <= MaxNbrAddr
    /\ \E real_mb_type \in {I_PCM, P_Skip}, blkIdx \in 0..15 :
           LET macroblocks == [a \in DOMAIN ncv.macroblocks \cup {ncv.CurrMbAddr} |->
                                  IF a = ncv.CurrMbAddr THEN MacroBlock("P", real_mb_type)
                                  ELSE ncv.macroblocks[a]]
               n == neighbouring_4x4_luma(ncv.CurrMbAddr, ncv.PicWidthInMbs, blkIdx)
               r == get_nc(macroblocks, n.A.mbAddrN, n.A.blkN, n.B.mbAddrN, n.B.blkN)
           IN  ncv' = [ncv EXCEPT
                         !.pc = IF n.A.ok /\ n.B.ok /\ r.ok THEN "decoding" ELSE "failed",
                         !.macroblocks = macroblocks,
                         !.blkIdx = blkIdx,
                         !.mbAddrA = n.A.mbAddrN, !.mbAddrB = n.B.mbAddrN,
                         !.error = IF ~n.A.ok THEN n.A.error
                                   ELSE IF ~n.B.ok THEN n.B.error
                                   ELSE r.error,
                         !.CurrMbAddr = IF n.A.ok /\ n.B.ok /\ r.ok THEN @ + 1 ELSE @]
    /\ UNCHANGED OthersOfNbr

NextNbr == NbrSkipRun \/ NbrMacroblock

SpecNbr == InitNbr /\ [][NextNbr]_vars

\* C26: a neighbouring macroblock address A or B reported available while nC is
\* computed has a record in the slice's macroblock map, also when the neighbour
\* was skipped through mb_skip_run or lies below the slice's first decoded
\* macroblock; get_nc never dereferences a missing record.
C26_NeighbourRecordsPresent ==
    /\ ncv.mbAddrA # NoAddr => ncv.mbAddrA \in DOMAIN ncv.macroblocks
    /\ ncv.mbAddrB # NoAddr => ncv.mbAddrB \in DOMAIN ncv.macroblocks

\* In a slice that starts at address 0 and skips no macroblock the neighbours
\* reported available have their records.
RecordsPresentWithoutGaps ==
    (ncv.first_mb_in_slice = 0 /\ ncv.skipped = {}) =>
        /\ ncv.mbAddrA # NoAddr => ncv.mbAddrA \in DOMAIN ncv.macroblocks
        /\ ncv.mbAddrB # NoAddr => ncv.mbAddrB \in DOMAIN ncv.macroblocks
        /\ ncv.pc # "failed"

\* get_nc has failed on the missing record of a skipped left neighbour.
SkippedNeighbourLookedUp ==
    /\ ncv.pc = "failed" /\ ncv.error = "AttributeError"
    /\ ncv.mbAddrA \in ncv.skipped

(***************************************************************************)
(* VCLSlice.residual_block_cavlc: the indices the combining loop of 9.2.4  *)
(* writes, on the runs of SpecResid.                                       *)
(***************************************************************************)

\* The values coeffNum takes in for i in range(totalCoeff - 1, -1, -1), first
\* write first.
RECURSIVE CoeffNums(_, _, _)
CoeffNums(runVal, i, coeffNum) ==
    IF i < 0 THEN <<>>
    ELSE <<coeffNum + runVal[i + 1] + 1>>
           \o CoeffNums(runVal, i - 1, coeffNum + runVal[i + 1] + 1)

\* The number of non-zero entries of coeffLevel.
NonZeroCount(coeffLevel) == Cardinality({k \in 1..Len(coeffLevel) : coeffLevel[k] # 0})

\* C27: every write of the combining loop targets coeffLevel[startIdx + coeffNum]
\* with 0 <= coeffNum <= endIdx - startIdx, the written indices are pairwise
\* distinct, and after a successful decode exactly TotalCoeff entries of
\* coeffLevel are non-zero.
C27_CombineIndices ==
    resid.pc \in {"done", "IndexError"} =>
        LET nums == CoeffNums(resid.runVal, resid.totalCoeff - 1, -1)
        IN  /\ \A k \in 1..Len(nums) :
                   0 <= nums[k] /\ nums[k] <= resid.endIdx - resid.startIdx
            /\ \A j, k \in 1..Len(nums) : j # k => nums[j] # nums[k]
            /\ resid.pc = "done" => NonZeroCount(resid.coeffLevel) = resid.totalCoeff

\* The combining loop never writes beyond endIdx: coeffNum is at most the
\* decoded total_zeros plus TotalCoeff - 1.
CombineNotBeyondEnd ==
    resid.pc \in {"done", "IndexError"} =>
        LET nums == CoeffNums(resid.runVal, resid.totalCoeff - 1, -1)
        IN  \A k \in 1..Len(nums) : nums[k] <= resid.endIdx - resid.startIdx

\* Two levels were written to the same index and the decode returned.
CombineWroteTwice ==
    /\ resid.pc = "done"
    /\ NonZeroCount(resid.coeffLevel) < resid.totalCoeff

(***************************************************************************)
(* h26x_extractor/cavlc.py: the (TotalCoeff, TrailingOnes) pairs of the    *)
(* coeff_token decoders.                                                   *)
(***************************************************************************)

\* Whether a pair is one a block can have.
PairInRange(pair) ==
    /\ 0 <= pair[2] /\ pair[2] <= Min(pair[1], 3)
    /\ 0 <= pair[1] /\ pair[1] <= 16

\* C29: every (TotalCoeff, TrailingOnes) pair a coeff_token decoder returns, for
\* any nC >= 0 and any input bits, has 0 <= TrailingOnes <= min(TotalCoeff, 3) and
\* 0 <= TotalCoeff <= 16; the fast path of nC >= 8 never returns more trailing
\* ones than coefficients for any of the 64 six-bit codes.
C29_TokenPairInRange ==
    (/\ reader.pc = "returned"
     /\ reader.fn \in {"coeff_token_8_quick", "coeff_token"}
     /\ reader.ret.ok) =>
        PairInRange(reader.ret.value)

\* The pairs decoded with the tables of 0 <= nC < 8 are in range.
TablePairInRange ==
    (reader.pc = "returned" /\ reader.fn = "coeff_token" /\ reader.ret.ok) =>
        PairInRange(reader.ret.value)

\* The fast path never returns more than 16 coefficients or 3 trailing ones.
QuickPairBounded ==
    (reader.pc = "returned" /\ reader.fn = "coeff_token_8_quick" /\ reader.ret.ok) =>
        /\ reader.ret.value[1] <= 16
        /\ reader.ret.value[2] <= 3

\* The fast path has returned one coefficient with two trailing ones for code 2.
QuickPairOutOfRange ==
    /\ reader.pc = "returned" /\ reader.fn = "coeff_token_8_quick"
    /\ Slice(reader.stream, reader.start, reader.start + 6) = BitsOf(2, 6)
    /\ reader.ret.ok /\ reader.ret.value = <<1, 2>>

(***************************************************************************)
(* h26x_extractor/nalutypes.py: VCLSlice.neighbouring_4x4_chroma (6.4.11.5)*)
(* for 4:2:0 video, MbWidthC = MbHeightC = 8, in a frame without MBAFF.    *)
(***************************************************************************)

MaxChromaWidth == 3

MaxChromaAddr == 5

inverse_4x4_chroma_block_scanning(blkIdx) ==
    <<InverseRasterScan(blkIdx, 4, 4, 8, 0), InverseRasterScan(blkIdx, 4, 4, 8, 1)>>

\* int(2 * (yP // 4) + (xP // 4))
derive_4x4_chroma_blkIdx(xP, yP) == 2 * (yP \div 4) + (xP \div 4)

\* neighbouring_4x4_chroma.get_mb_addr_and_blk_idx(xD, yD); the call of
\* derive_neighbour_location leaves is_luma at its default, True.
chroma_mb_addr_and_blk_idx(CurrMbAddr, PicWidthInMbs, MbWidthC, MbHeightC, blkIdx, xD, yD) ==
    LET xy == inverse_4x4_chroma_block_scanning(blkIdx)
        loc == derive_neighbour_location(CurrMbAddr, PicWidthInMbs, xy[1] + xD, xy[2] + yD,
                                         TRUE, MbWidthC, MbHeightC)
    IN  [ok |-> loc.ok, error |-> loc.error, mbAddrN |-> loc.mbAddrN,
         blkN |-> IF loc.mbAddrN = NoAddr THEN 0 ELSE derive_4x4_chroma_blkIdx(loc.xW, loc.yW)]

\* neighbouring_4x4_chroma(mb, blkIdx)
neighbouring_4x4_chroma(CurrMbAddr, PicWidthInMbs, MbWidthC, MbHeightC, blkIdx) ==
    [A |-> chroma_mb_addr_and_blk_idx(CurrMbAddr, PicWidthInMbs, MbWidthC, MbHeightC,
                                      blkIdx, -1, 0),
     B |-> chroma_mb_addr_and_blk_idx(CurrMbAddr, PicWidthInMbs, MbWidthC, MbHeightC,
                                      blkIdx, 0, -1)]

OthersOfChroma == <<codec, crypter, cav, slice, resid, mbrec, reader>>

\* get_nc is about to derive the neighbours of chroma block blkIdx of the
\* macroblock at CurrMbAddr.
InitChroma ==
    /\ \E PicWidthInMbs \in 1..MaxChromaWidth, CurrMbAddr \in 0..MaxChromaAddr,
          blkIdx \in 0..3 :
           ncv = [pc |-> "chroma", PicWidthInMbs |-> PicWidthInMbs,
                  CurrMbAddr |-> CurrMbAddr, MbWidthC |-> 8, MbHeightC |-> 8,
                  blkIdx |-> blkIdx]
    /\ codec = Idle /\ crypter = Idle /\ cav = Idle
    /\ slice = Idle /\ resid = Idle /\ mbrec = Idle /\ reader = Idle

\* mbAddrA, blkA, mbAddrB, blkB = self.neighbouring_4x4_chroma(mb, blkIdx)
NeighbouringChroma ==
    /\ ncv.pc = "chroma"
    /\ LET n == neighbouring_4x4_chroma(ncv.CurrMbAddr, ncv.PicWidthInMbs, ncv.MbWidthC,
                                        ncv.MbHeightC, ncv.blkIdx)
       IN  ncv' = [pc |-> IF n.A.ok /\ n.B.ok THEN "chroma_returned" ELSE "chroma_raised",
                   PicWidthInMbs |-> ncv.PicWidthInMbs, CurrMbAddr |-> ncv.CurrMbAddr,
                   MbWidthC |-> ncv.MbWidthC, MbHeightC |-> ncv.MbHeightC,
                   blkIdx |-> ncv.blkIdx,
                   mbAddrA |-> n.A.mbAddrN, blkA |-> n.A.blkN,
                   mbAddrB |-> n.B.mbAddrN, blkB |-> n.B.blkN]
    /\ UNCHANGED OthersOfChroma

NextChroma == NeighbouringChroma

SpecChroma == InitChroma /\ [][NextChroma]_vars

\* C30: for ChromaArrayType 1 the chroma block indices neighbouring_4x4_chroma
\* returns for the neighbours A (left) and B (top) of a chroma block 0..3 are in
\* 0..3 and follow the chroma macroblock dimensions: across the macroblock
\* boundary the left neighbour of block 0 or 2 is block 1 or 3 of mbAddrA and the
\* top neighbour of block 0 or 1 is block 2 or 3 of mbAddrB; inside the macroblock
\* they are the blocks to the left and above.
C30_ChromaNeighbours ==
    ncv.pc \in {"chroma_returned", "chroma_raised"} =>
        /\ ncv.pc = "chroma_returned"
        /\ ncv.mbAddrA # NoAddr =>
               /\ ncv.blkA \in 0..3
               /\ ncv.blkA = IF ncv.blkIdx \in {0, 2} THEN ncv.blkIdx + 1 ELSE ncv.blkIdx - 1
               /\ ncv.mbAddrA = IF ncv.blkIdx \in {0, 2} THEN ncv.CurrMbAddr - 1
                                ELSE ncv.CurrMbAddr
        /\ ncv.mbAddrB # NoAddr =>
               /\ ncv.blkB \in 0..3
               /\ ncv.blkB = IF ncv.blkIdx \in {0, 1} THEN ncv.blkIdx + 2 ELSE ncv.blkIdx - 2
               /\ ncv.mbAddrB = IF ncv.blkIdx \in {0, 1}
                                THEN ncv.CurrMbAddr - ncv.PicWidthInMbs
                                ELSE ncv.CurrMbAddr

\* The left neighbour of blocks 1 and 3, inside the macroblock, is block 0 and 2
\* of the macroblock itself, and the derivation raises nothing.
ChromaLeftInsideMacroblock ==
    /\ ncv.pc # "chroma_raised"
    /\ (ncv.pc = "chroma_returned" /\ ncv.blkIdx \in {1, 3}) =>
           /\ ncv.mbAddrA = ncv.CurrMbAddr
           /\ ncv.blkA = ncv.blkIdx - 1

\* The top neighbour of chroma block 0 came back as block 6 of mbAddrB.
ChromaTopOutOfRange ==
    /\ ncv.pc = "chroma_returned"
    /\ ncv.blkIdx = 0
    /\ ncv.mbAddrB = ncv.CurrMbAddr - ncv.PicWidthInMbs
    /\ ncv.blkB = 6

=============================================================================
